---- MODULE Spec2Model ----
(***************************************************************************)
(* A model of the teaching kernel's thread dispatcher (scheduler.C,        *)
(* thread.C), contiguous frame pool (cont_frame_pool.C), VM pool           *)
(* (vm_pool.C) and page tables (page_table.C).  Each subsystem has its own *)
(* specification over the shared variables: SchedSpec, RRSpec, PoolSpec,   *)
(* VMSpec, VMFreshSpec, PGSpec; ListSpec is the list of frame pools,       *)
(* BootSpec the boot sequence of main (kernel.C) followed by the running   *)
(* kernel, StepSpec the scheduler with each call split at its entry,       *)
(* ThreadSpec the life of a thread with its own address space, LiveSpec    *)
(* the round-robin kernel under fairness of the timer.                     *)
(***************************************************************************)
EXTENDS Integers, Sequences, FiniteSets, TLC

(***************************************************************************)
(* Bounds of the model                                                     *)
(***************************************************************************)
\* number of threads the kernel constructs besides the termination thread
NThreads == 3
\* number of threads constructed under the round-robin scheduler
RRThreads == 2
\* largest round-robin quantum tried
MaxHz == 2

\* utils.H: #define NULL 0
NULL == 0

Threads == 1..NThreads
\* Scheduler::termination_thread, constructed in Scheduler::Scheduler()
termination_thread == NThreads + 1
AllThreads == Threads \cup {termination_thread}

VARIABLES
    queue,      \* Scheduler::queue : [head, tail]
    next,       \* Thread::next of every TCB
    current,    \* current_thread (thread.C)
    running,    \* Scheduler::running
    cargo,      \* termination_thread->cargo
    alive,      \* threads constructed and not yet deleted
    exiting,    \* threads suspended inside terminate(self), after dispatch_to
    intr,       \* Machine::interrupts_enabled()
    ticks,      \* EOQTimer::ticks
    hz,         \* EOQTimer::hz
    rr,         \* TRUE when the scheduler is an RRScheduler
    termpc,     \* where the termination thread stands in termination_thread_func
    halted,     \* "no", or why the kernel stopped: "assert", "crash", "hang"
    fifo,       \* history: threads enqueued and not yet dequeued/terminated, in arrival order
    since,      \* history: timer ticks handled since the running thread was dispatched
    yielded,    \* history: the running thread called yield since it was dispatched
    ev,         \* history: the last scheduler call and its outcome
    started,    \* threads that were dispatched at least once
    cur_pt,     \* the thread whose page table is PageTable::current_page_table (NULL: the kernel's)
    MEMORY_POOL, \* the thread whose VM pool is the global MEMORY_POOL (NULL: the kernel's)
    mainpc,     \* where main stands in its boot sequence; "start" once the threads exist
    callpc      \* the scheduler call the running code has entered: [op, t], NoCall outside one

memVars == <<started, cur_pt, MEMORY_POOL, mainpc>>

schedVars == <<queue, next, current, running, cargo, alive, exiting, intr, ticks,
               hz, rr, termpc, halted, fifo, since, yielded, ev, memVars,
               callpc>>

VARIABLES
    pool,     \* the ContFramePool object and its bitmap
    owned,    \* history: first frames handed out by get_frames and not released
    got,      \* history: [r, n] of the get_frames successes since the last release, in order
    holes,    \* history: [b, n] of the ranges passed to mark_inaccessible
    snap,     \* history: bitmap and nFreeFrames before a get_frames that was the last call
    pev,      \* history: the last pool call and its outcome
    pools,    \* the list behind ContFramePool::head, the newest pool first
    lev       \* history: the last call on a pool of the list and its outcome

listVars == <<pools, lev>>

poolVars == <<pool, owned, got, holes, snap, pev, listVars>>

VARIABLES
    vm,       \* the VMPool object with its region arrays
    vev,      \* history: the last VM pool call and its outcome
    vmapped   \* the pages of the two region arrays that are mapped to a frame

vmVars == <<vm, vev, vmapped>>

VARIABLES
    mem,                 \* physical memory read as tables: frame -> index -> entry
    page_directory,      \* PageTable::page_directory of every object: a frame number, NoDir if not constructed
    head_pool,           \* PageTable::head_pool of every object: TRUE when the thread's VM pool is registered
    current_page_table,  \* PageTable::current_page_table
    cr3,                 \* the directory frame the MMU walks from
    kernel_mem_pool,     \* PageTable::kernel_mem_pool
    process_mem_pool,    \* PageTable::process_mem_pool
    rev,                 \* the revision the kernel is built from: 1 page_table.C, 2 the one with the destructor
    stuck,               \* TRUE once an access faults for ever
    gev,                 \* history: the last paging call and its outcome
    thr                  \* history: the thread with its own address space, and nFreeFrames of the two pools before its construction

pgVars == <<mem, page_directory, head_pool, current_page_table, cr3,
            kernel_mem_pool, process_mem_pool, rev, stuck, gev, thr>>

vars == <<schedVars, poolVars, vmVars, pgVars>>

\* no scheduler call entered
NoCall == [op |-> "idle", t |-> NULL]

NoEv == [op |-> "none", t |-> NULL, got |-> NULL, want |-> NULL, ptr |-> NULL,
         n |-> 0, flag |-> FALSE]

(***************************************************************************)
(* Queue operations.  A queue value q is [head, tail, next].               *)
(***************************************************************************)
Q(qu, nx) == [head |-> qu.head, tail |-> qu.tail, next |-> nx]

\* Scheduler::enqueue: the link of _thread itself is not written
enqueue(q, t) ==
    IF q.tail = NULL
    THEN [q EXCEPT !.head = t, !.tail = t]
    ELSE [q EXCEPT !.next[q.tail] = t, !.tail = t]

\* Scheduler::dequeue: returns the new queue and the thread taken (NULL if none)
dequeue(q) ==
    IF q.head = NULL
    THEN [q |-> q, thread |-> NULL]
    ELSE LET h  == q.head
             q1 == [q EXCEPT !.head = q.next[h]]
         IN  [q |-> IF q1.head = NULL THEN [q1 EXCEPT !.tail = NULL] ELSE q1,
              thread |-> h]

\* the TCBs whose memory enqueue / dequeue access
enqueueTouches(q) == IF q.tail = NULL THEN {} ELSE {q.tail}
dequeueTouches(q) == IF q.head = NULL THEN {} ELSE {q.head}

\* position of the termination thread after it is switched in: a fresh thread
\* and one suspended in its own yield both continue at the top of the loop
TermResume(pc) == IF pc \in {"fresh", "inyield"} THEN "delete" ELSE pc

\* the thread switched in one step after a dispatch_to(t) from Thread.C:
\* a thread that was suspended inside terminate(self) continues behind the
\* dispatch_to there and hits assert(false)
HaltAfterDispatch(t) == IF t \in exiting THEN "assert" ELSE "no"

RangeOf(s) == {s[i] : i \in DOMAIN s}
HeadOrNull(s) == IF s = <<>> THEN NULL ELSE Head(s)
TailOrEmpty(s) == IF s = <<>> THEN s ELSE Tail(s)
RemoveFrom(s, t) == SelectSeq(s, LAMBDA x : x # t)
\* the history queue holds a thread once, however often the code links it
AppendNew(s, t) == IF t \in RangeOf(s) THEN s ELSE Append(s, t)

(***************************************************************************)
(* Scheduler::terminate, the branch for a thread that is not running       *)
(* (scheduler.C 149-178).  LOOP marks a walk that never ends.              *)
(***************************************************************************)
LOOP == 0 - 1

\* while (prev && prev->next != _thread) prev = prev->next;
\* more than Cardinality(AllThreads) steps means the walk is on a cycle
RECURSIVE WalkPrev(_, _, _, _)
WalkPrev(nx, prev, t, fuel) ==
    IF prev = NULL \/ nx[prev] = t THEN prev
    ELSE IF fuel = 0 THEN LOOP
    ELSE WalkPrev(nx, nx[prev], t, fuel - 1)

\* the TCBs the walk reads
RECURSIVE WalkTouches(_, _, _, _)
WalkTouches(nx, prev, t, fuel) ==
    IF prev = NULL THEN {}
    ELSE IF nx[prev] = t \/ fuel = 0 THEN {prev}
    ELSE {prev} \cup WalkTouches(nx, nx[prev], t, fuel - 1)

\* result: the new queue, whether _thread was deleted, the caller's pointer
\* afterwards, whether interrupts were re-enabled before returning, and
\* whether the call returns at all
terminate_queued(q, t) ==
    IF q.head = q.tail
    THEN IF q.head = t
         THEN [q |-> [q EXCEPT !.head = NULL, !.tail = NULL], deleted |-> TRUE,
               ptr |-> NULL, enabled |-> FALSE, returns |-> TRUE]
         ELSE [q |-> q, deleted |-> FALSE, ptr |-> t, enabled |-> FALSE,
               returns |-> TRUE]
    ELSE LET prev == WalkPrev(q.next, q.head, t, Cardinality(AllThreads))
         IN  IF prev = LOOP
             THEN [q |-> q, deleted |-> FALSE, ptr |-> t, enabled |-> FALSE,
                   returns |-> FALSE]
             ELSE IF prev = NULL \/ q.next[prev] # t
             THEN [q |-> q, deleted |-> FALSE, ptr |-> t, enabled |-> FALSE,
                   returns |-> TRUE]
             ELSE LET q1 == [q EXCEPT !.next[prev] = q.next[t]]
                      q2 == IF t = q.tail THEN [q1 EXCEPT !.tail = prev] ELSE q1
                  IN  [q |-> q2, deleted |-> TRUE, ptr |-> NULL,
                       enabled |-> TRUE, returns |-> TRUE]

terminateTouches(q, t) ==
    IF q.head = q.tail THEN {}
    ELSE WalkTouches(q.next, q.head, t, Cardinality(AllThreads))

(***************************************************************************)
(* The dispatcher's state after the kernel has constructed the scheduler   *)
(* and the threads (kernel.C main): nothing queued, no thread running yet. *)
(***************************************************************************)
SchedInitWith(isRR, n, quanta) ==
    /\ queue = [head |-> NULL, tail |-> NULL]
    /\ next = [t \in AllThreads |-> NULL]
    /\ current = NULL
    /\ running = FALSE
    /\ cargo = NULL
    /\ alive = (1..n) \cup {termination_thread}
    /\ exiting = {}
    /\ intr = TRUE
    /\ ticks = 0
    /\ hz \in quanta
    /\ rr = isRR
    /\ termpc = "fresh"
    /\ halted = "no"
    /\ fifo = <<>>
    /\ since = 0
    /\ yielded = FALSE
    /\ ev = NoEv
    /\ started = {}
    /\ cur_pt = n
    /\ MEMORY_POOL = NULL
    /\ mainpc = "start"
    /\ callpc = NoCall

\* an access to the memory of a deleted TCB either brings the kernel down or
\* finds the old contents still there
Crash(op, t) ==
    /\ halted' = "crash"
    /\ ev' = [NoEv EXCEPT !.op = op, !.t = t]
    /\ UNCHANGED <<queue, next, current, running, cargo, alive, exiting, intr,
                   ticks, hz, rr, termpc, fifo, since, yielded, memVars>>

\* Thread::pt and Thread::pool of thread t (thread.C 176-180, 209-212): its
\* own page table and VM pool, the kernel's for the termination thread
thread_pt(t) == IF t = termination_thread THEN NULL ELSE t
thread_pool(t) == IF t = termination_thread THEN NULL ELSE t

\* Thread::~Thread (thread.C 230-242) leaves the kernel's page table loaded
\* and MEMORY_POOL at the pool that was current when the thread was made
Thread_destructor(deleted) ==
    /\ cur_pt' = IF deleted THEN NULL ELSE cur_pt
    /\ MEMORY_POOL' = IF deleted THEN NULL ELSE MEMORY_POOL
    /\ started' = started
    /\ mainpc' = mainpc

\* Thread::dispatch_to(t) and the switch into t (thread.C 248-271): t starts
\* in thread_start or continues behind its own dispatch_to, with interrupts
\* enabled again on its side; only there are the page table and the pool of
\* the thread made current
dispatch_to(t, callerpc) ==
    /\ running' = TRUE
    /\ current' = t
    /\ intr' = TRUE
    /\ termpc' = IF t = termination_thread THEN TermResume(callerpc) ELSE callerpc
    /\ halted' = HaltAfterDispatch(t)
    /\ since' = 0
    /\ yielded' = FALSE
    /\ started' = started \cup {t}
    /\ cur_pt' = IF t \in started THEN thread_pt(t) ELSE cur_pt
    /\ MEMORY_POOL' = IF t \in started THEN thread_pool(t) ELSE MEMORY_POOL
    /\ mainpc' = mainpc

\* Scheduler::resume (scheduler.C 94-102), also reached through add
resume_body(t, op) ==
    LET q1 == enqueue(Q(queue, next), t) IN
    \/ /\ queue' = [head |-> q1.head, tail |-> q1.tail]
       /\ next' = q1.next
       /\ intr' = TRUE
       /\ fifo' = Append(fifo, t)
       /\ ev' = [NoEv EXCEPT !.op = op, !.t = t]
       /\ UNCHANGED <<current, running, cargo, alive, exiting, ticks, hz, rr,
                      termpc, halted, since, yielded, memVars>>
    \/ /\ enqueueTouches(Q(queue, next)) \ alive # {}
       /\ Crash(op, t)

\* Scheduler::add (scheduler.C 104-106), called by main before the first dispatch
add(t) ==
    /\ UNCHANGED <<poolVars, vmVars, pgVars>>
    /\ callpc' = NoCall
    /\ halted = "no" /\ current = NULL /\ mainpc = "start"
    /\ t \in Threads \cap alive /\ t \notin RangeOf(fifo)
    /\ resume_body(t, "add")

\* Scheduler::resume called by the running thread, for itself or for a
\* thread that is neither queued nor deleted
resume(t) ==
    /\ UNCHANGED <<poolVars, vmVars, pgVars>>
    /\ callpc' = NoCall
    /\ halted = "no" /\ current \in Threads
    /\ t \in Threads \cap alive /\ t \notin RangeOf(fifo) /\ t \notin exiting
    /\ resume_body(t, "resume")

\* main starts the first thread: Thread::dispatch_to(thread1) (kernel.C)
first_dispatch(t) ==
    /\ UNCHANGED <<poolVars, vmVars, pgVars>>
    /\ callpc' = NoCall
    /\ halted = "no" /\ current = NULL /\ mainpc = "start"
    /\ t \in Threads \cap alive /\ t \notin RangeOf(fifo)
    /\ dispatch_to(t, termpc)
    /\ ev' = [NoEv EXCEPT !.op = "first", !.t = t, !.got = t]
    /\ UNCHANGED <<queue, next, cargo, alive, exiting, ticks, hz, rr, fifo>>

\* main's boot sequence from the construction of the scheduler on
\* (kernel.C): the position that follows pc when the sequence is the one the
\* specification lists, threads before interrupts (used to test claim C30)
main_next_threads_first(pc) ==
    CASE pc = "scheduler" -> "threads"
      [] pc = "threads" -> "interrupts"
      [] pc = "interrupts" -> "start"
      [] OTHER -> pc

\* the position that follows pc in main: new Scheduler / new RRScheduler,
\* Machine::enable_interrupts(), new Thread four times, then add and
\* dispatch_to
main_next(pc) ==
    CASE pc = "scheduler" -> "interrupts"
      [] pc = "interrupts" -> "threads"
      [] pc = "threads" -> "start"
      [] OTHER -> pc

\* the state when main reaches the construction of the scheduler: interrupts
\* still disabled since start-up, no thread and no scheduler yet
BootInitWith(quanta) ==
    /\ queue = [head |-> NULL, tail |-> NULL]
    /\ next = [t \in AllThreads |-> NULL]
    /\ current = NULL
    /\ running = FALSE
    /\ cargo = NULL
    /\ alive = {}
    /\ exiting = {}
    /\ intr = FALSE
    /\ ticks = 0
    /\ hz \in quanta
    /\ rr \in BOOLEAN
    /\ termpc = "fresh"
    /\ halted = "no"
    /\ fifo = <<>>
    /\ since = 0
    /\ yielded = FALSE
    /\ ev = NoEv
    /\ started = {}
    /\ cur_pt = NULL
    /\ MEMORY_POOL = NULL
    /\ mainpc = "scheduler"
    /\ callpc = NoCall

\* SYSTEM_SCHEDULER = new Scheduler(...) or new RRScheduler(...): the
\* constructor makes the termination thread (and registers the timer)
construct_scheduler ==
    /\ UNCHANGED <<poolVars, vmVars, pgVars>>
    /\ callpc' = NoCall
    /\ halted = "no" /\ mainpc = "scheduler"
    /\ alive' = alive \cup {termination_thread}
    /\ mainpc' = main_next(mainpc)
    /\ ev' = [NoEv EXCEPT !.op = "scheduler"]
    /\ UNCHANGED <<queue, next, current, running, cargo, exiting, intr, ticks,
                   hz, rr, termpc, halted, fifo, since, yielded, started,
                   cur_pt, MEMORY_POOL>>

\* Machine::enable_interrupts() in main
enable_interrupts ==
    /\ UNCHANGED <<poolVars, vmVars, pgVars>>
    /\ callpc' = NoCall
    /\ halted = "no" /\ mainpc = "interrupts"
    /\ intr' = TRUE
    /\ mainpc' = main_next(mainpc)
    /\ ev' = [NoEv EXCEPT !.op = "sti"]
    /\ UNCHANGED <<queue, next, current, running, cargo, alive, exiting, ticks,
                   hz, rr, termpc, halted, fifo, since, yielded, started,
                   cur_pt, MEMORY_POOL>>

\* thread1 = new Thread(...) ... : main makes the threads in order; the
\* constructor leaves the page table of the new thread loaded
construct_thread(t) ==
    /\ UNCHANGED <<poolVars, vmVars, pgVars>>
    /\ callpc' = NoCall
    /\ halted = "no" /\ mainpc = "threads"
    /\ t \in 1..RRThreads /\ t \notin alive /\ 1..(t - 1) \subseteq alive
    /\ alive' = alive \cup {t}
    /\ cur_pt' = t
    /\ mainpc' = IF t = RRThreads THEN main_next(mainpc) ELSE mainpc
    /\ ev' = [NoEv EXCEPT !.op = "thread", !.t = t, !.flag = intr]
    /\ UNCHANGED <<queue, next, current, running, cargo, exiting, intr, ticks,
                   hz, rr, termpc, halted, fifo, since, yielded, started,
                   MEMORY_POOL>>

\* scheduler.H declares yield virtual: a call through a Scheduler pointer
\* (System::SCHEDULER->yield(), scheduler->yield()) runs RRScheduler::yield
\* when the scheduler is an RRScheduler
yield_is_virtual == TRUE

\* a reset that leaves the counter as it is (used to test claim C4)
reset_ticks_kept(tk) == tk

\* EOQTimer::reset_ticks (scheduler.C 191-193): the new value of ticks
reset_ticks(tk) == 0

\* Scheduler::yield / RRScheduler::yield (scheduler.C 75-92, 201-221) run by
\* thread `me`; pcfound / pcnone are the termination thread's positions after
\* a dispatch and after a return without one
yield_body(me, pcfound, pcnone) ==
    LET d == dequeue(Q(queue, next)) IN
    \/ /\ d.thread = NULL
       /\ intr' = TRUE
       /\ yielded' = TRUE
       /\ termpc' = pcnone
       /\ fifo' = TailOrEmpty(fifo)
       /\ ev' = [NoEv EXCEPT !.op = "yield", !.t = me, !.got = NULL,
                             !.want = HeadOrNull(fifo)]
       /\ UNCHANGED <<queue, next, current, running, cargo, alive, exiting,
                      ticks, hz, rr, halted, since, memVars>>
    \/ /\ d.thread # NULL
       /\ queue' = [head |-> d.q.head, tail |-> d.q.tail]
       /\ next' = d.q.next
       /\ ticks' = IF rr /\ yield_is_virtual THEN reset_ticks(ticks) ELSE ticks
       /\ dispatch_to(d.thread, pcfound)
       /\ fifo' = TailOrEmpty(fifo)
       /\ ev' = [NoEv EXCEPT !.op = "yield", !.t = me, !.got = d.thread,
                             !.want = HeadOrNull(fifo)]
       /\ UNCHANGED <<cargo, alive, exiting, hz, rr>>
    \/ /\ (dequeueTouches(Q(queue, next)) \cup {d.thread}) \ (alive \cup {NULL}) # {}
       /\ Crash("yield", me)

yield ==
    /\ UNCHANGED <<poolVars, vmVars, pgVars>>
    /\ callpc' = NoCall
    /\ halted = "no" /\ current \in Threads
    /\ yield_body(current, termpc, termpc)

\* Scheduler::terminate(_thread) with _thread == current_thread
\* (scheduler.C 122-147; thread_shutdown, thread.C 70-89): stash the thread in
\* the termination thread's cargo and switch to the termination thread
terminate_self ==
    /\ UNCHANGED <<poolVars, vmVars, pgVars>>
    /\ callpc' = NoCall
    /\ halted = "no" /\ current \in Threads
    /\ current \notin RangeOf(fifo)
    /\ cargo' = current
    /\ exiting' = exiting \cup {current}
    /\ dispatch_to(termination_thread, termpc)
    /\ ev' = [NoEv EXCEPT !.op = "terminate_self", !.t = current,
                          !.got = termination_thread]
    /\ UNCHANGED <<queue, next, alive, ticks, hz, rr, fifo>>

\* Scheduler::terminate(_thread) for a thread other than the running one,
\* or for a null pointer (scheduler.C 122-127, 149-178), called by the running
\* thread or by main before the first dispatch
terminate(t) ==
    /\ UNCHANGED <<poolVars, vmVars, pgVars>>
    /\ callpc' = NoCall
    /\ halted = "no" /\ current \in Threads \cup {NULL}
    /\ t \in ((Threads \cap alive) \ ({current} \cup exiting)) \cup {NULL}
    /\ IF t = NULL
       THEN /\ intr' = FALSE
            /\ ev' = [NoEv EXCEPT !.op = "terminate", !.t = NULL]
            /\ UNCHANGED <<queue, next, current, running, cargo, alive, exiting,
                           ticks, hz, rr, termpc, halted, fifo, since, yielded,
                           memVars>>
       ELSE LET r == terminate_queued(Q(queue, next), t) IN
            \/ /\ queue' = [head |-> r.q.head, tail |-> r.q.tail]
               /\ next' = r.q.next
               /\ alive' = IF r.deleted THEN alive \ {t} ELSE alive
               /\ Thread_destructor(r.deleted)
               /\ intr' = r.enabled
               /\ halted' = IF r.returns THEN "no" ELSE "hang"
               /\ fifo' = IF r.deleted THEN RemoveFrom(fifo, t) ELSE fifo
               /\ ev' = [NoEv EXCEPT !.op = "terminate", !.t = t, !.ptr = r.ptr,
                                     !.flag = r.deleted,
                                     !.want = IF t \in RangeOf(fifo) THEN t ELSE NULL]
               /\ UNCHANGED <<current, running, cargo, exiting, ticks, hz, rr,
                              termpc, since, yielded>>
            \/ /\ terminateTouches(Q(queue, next), t) \ alive # {}
               /\ Crash("terminate", t)

\* termination_thread_func (scheduler.C 108-120), first half of the loop body:
\* delete the thread found in cargo
term_delete ==
    /\ UNCHANGED <<poolVars, vmVars, pgVars>>
    /\ callpc' = NoCall
    /\ halted = "no" /\ current = termination_thread /\ termpc = "delete"
    /\ \/ /\ alive' = alive \ {cargo}
          /\ Thread_destructor(TRUE)
          /\ termpc' = "yield"
          /\ ev' = [NoEv EXCEPT !.op = "delete", !.t = cargo,
                                !.flag = cargo \notin alive]
          /\ UNCHANGED <<queue, next, current, running, cargo, exiting, intr,
                         ticks, hz, rr, halted, fifo, since, yielded>>
       \/ /\ cargo \notin alive
          /\ Crash("delete", cargo)

\* termination_thread_func, second half: scheduler->yield(), then loop
term_yield ==
    /\ UNCHANGED <<poolVars, vmVars, pgVars>>
    /\ callpc' = NoCall
    /\ halted = "no" /\ current = termination_thread /\ termpc = "yield"
    /\ yield_body(termination_thread, "inyield", "delete")

count_tick_always(run, tk) == tk + 1

\* if (Scheduler::running) ticks++ (scheduler.C 181-182): a tick counts
\* only once the first thread is dispatched
count_tick(run, tk) == IF run THEN tk + 1 ELSE tk

\* EOQTimer::handle_interrupt (scheduler.C 180-189), delivered only while
\* interrupts are enabled; at the end of the quantum it runs
\* scheduler->resume(current) and scheduler->yield()
SinceCap == 2 * MaxHz + 1
Bump(n) == IF n < SinceCap THEN n + 1 ELSE n

handle_interrupt ==
    /\ UNCHANGED <<poolVars, vmVars, pgVars>>
    /\ callpc' = callpc
    /\ halted = "no" /\ rr /\ intr
    /\ LET t1 == count_tick(running, ticks)
           subject == current \in Threads /\ ~yielded
       IN  IF t1 >= hz
           THEN LET q1 == enqueue(Q(queue, next), current)
                    d  == dequeue(q1)
                    f1 == AppendNew(fifo, current)
                IN  \/ /\ queue' = [head |-> d.q.head, tail |-> d.q.tail]
                       /\ next' = d.q.next
                       /\ ticks' = 0
                       /\ dispatch_to(d.thread, termpc)
                       /\ fifo' = Tail(f1)
                       /\ ev' = [NoEv EXCEPT !.op = "preempt", !.t = current,
                                             !.got = d.thread, !.want = Head(f1),
                                             !.n = Bump(since), !.flag = subject]
                       /\ UNCHANGED <<cargo, alive, exiting, hz, rr>>
                    \/ /\ (enqueueTouches(Q(queue, next)) \cup dequeueTouches(q1)
                             \cup {d.thread}) \ alive # {}
                       /\ Crash("preempt", current)
           ELSE /\ ticks' = t1
                /\ since' = IF running THEN Bump(since) ELSE since
                /\ ev' = [NoEv EXCEPT !.op = "tick", !.t = current,
                                      !.n = IF running THEN Bump(since) ELSE since,
                                      !.flag = subject]
                /\ UNCHANGED <<queue, next, current, running, cargo, alive,
                               exiting, intr, hz, rr, termpc, halted, fifo,
                               yielded, memVars>>

\* the entry of a scheduler call with the interrupt flag left as it is
\* (used to test claim C21)
disable_on_entry_skipped(i) == i

\* the entry of yield, resume and terminate (scheduler.C 76-77, 95-96,
\* 123-124, 202-203): if (Machine::interrupts_enabled())
\* Machine::disable_interrupts(); the interrupt flag afterwards
disable_on_entry(i) == IF i THEN FALSE ELSE i

\* the calls the running code can make: who may call what, as in the guards
\* of the calls themselves
CanCall(op, t) ==
    CASE op = "add" ->
            /\ current = NULL /\ mainpc = "start"
            /\ t \in Threads \cap alive /\ t \notin RangeOf(fifo)
      [] op = "resume" ->
            /\ current \in Threads
            /\ t \in Threads \cap alive /\ t \notin RangeOf(fifo) /\ t \notin exiting
      [] op = "yield" -> current \in Threads /\ t = NULL
      [] op = "terminate_self" ->
            current \in Threads /\ current \notin RangeOf(fifo) /\ t = current
      [] op = "terminate" ->
            /\ current \in Threads
            /\ t \in ((Threads \cap alive) \ ({current} \cup exiting)) \cup {NULL}
      [] op = "term_yield" ->
            current = termination_thread /\ termpc = "yield" /\ t = NULL
      [] OTHER -> FALSE

CallOps == {"add", "resume", "yield", "terminate_self", "terminate", "term_yield"}

\* the first statement of a scheduler call; the rest of the call follows as
\* a step of its own, and the timer interrupt is delivered in between if the
\* interrupt flag allows it
enter(op, t) ==
    /\ UNCHANGED <<poolVars, vmVars, pgVars>>
    /\ halted = "no" /\ callpc = NoCall
    /\ CanCall(op, t)
    /\ intr' = disable_on_entry(intr)
    /\ callpc' = [op |-> op, t |-> t]
    /\ UNCHANGED <<queue, next, current, running, cargo, alive, exiting, ticks,
                   hz, rr, termpc, halted, fifo, since, yielded, ev, memVars>>

(***************************************************************************)
(* ContFramePool (cont_frame_pool.C).  A pool value p is                   *)
(* [base_frame_no, nframes, info_frame_no, nFreeFrames, bitmap]; bitmap    *)
(* maps the two-bit slots of the pool's info frames to a frame state.      *)
(***************************************************************************)
\* frames of the modelled pool
NFrames == 6
\* frame states one info frame holds (scaled down from FRAME_SIZE * 4)
InfoFrameCapacity == 3
\* the nonzero base_frame_no tried besides 0
BaseNZ == 2
\* largest _n_frames passed to get_frames and mark_inaccessible
MaxReq == 3
\* number of mark_inaccessible calls (the kernel makes one, at boot)
MaxMarks == 1
\* unsigned long arithmetic wraps; 32 bits on the target, 30 here, the widest
\* modulus the model checker's integers hold
Wrap32(x) == x % 1073741824

FrameStates == {"Free", "Used", "HoS"}

\* ContFramePool::needed_info_frames
needed_info_frames(n) ==
    (n \div InfoFrameCapacity) + (IF n % InfoFrameCapacity > 0 THEN 1 ELSE 0)

\* slots of the bitmap memory: whole info frames
Slots(n) == needed_info_frames(n) * InfoFrameCapacity

\* ContFramePool::get_state
get_state(p, fno) == p.bitmap[fno]

\* ContFramePool::set_state; a slot number beyond the info frames is a write
\* to memory that is not the bitmap
set_state(p, fno, st) ==
    IF fno \in DOMAIN p.bitmap
    THEN [p EXCEPT !.bitmap[fno] = st]
    ELSE p

\* set_state(fno, st) for fno = from, from + 1, ..., to - 1 in turn
RECURSIVE set_range(_, _, _, _)
set_range(p, from, to, st) ==
    IF from >= to THEN p
    ELSE set_range(set_state(p, from, st), from + 1, to, st)

\* a constructor that leaves the frames of the bitmap Free (used to test
\* claim C24)
ContFramePool_unmarked(base, n, info, junk) ==
    [base_frame_no |-> base, nframes |-> n, info_frame_no |-> info,
     nFreeFrames |-> n,
     bitmap |-> [i \in 0..(Slots(n) - 1) |-> IF i < n THEN "Free" ELSE junk[i]]]

\* the constructor (cont_frame_pool.C 133-170); junk is what the memory of
\* the info frames holds in the slots behind the last frame
ContFramePool(base, n, info, junk) ==
    LET p0 == [base_frame_no |-> base, nframes |-> n, info_frame_no |-> info,
               nFreeFrames |-> n,
               bitmap |-> [i \in 0..(Slots(n) - 1) |->
                             IF i < n THEN "Free" ELSE junk[i]]]
        ninfo == needed_info_frames(n)
    IN  IF info = 0
        THEN LET p1 == set_range(p0, 0, ninfo, "Used")
                 p2 == [p1 EXCEPT !.nFreeFrames = p1.nFreeFrames - ninfo]
             IN  set_state(p2, 0, "HoS")
        ELSE p0

\* a scan that keeps its count of free frames across a frame that is not free
\* (used to test claim C5)
RECURSIVE scan_no_restart(_, _, _, _)
scan_no_restart(p, n, fno, free) ==
    IF fno >= p.nframes THEN [found |-> FALSE, start |-> 0]
    ELSE LET f1 == IF get_state(p, fno) = "Free" THEN free + 1 ELSE free
         IN  IF f1 = n THEN [found |-> TRUE, start |-> fno - f1 + 1]
             ELSE scan_no_restart(p, n, fno + 1, f1)

\* a start that is the frame at which the scan stopped (used to test claim
\* C25)
run_start_at_stop(fno, free) == fno

\* start = fno - free + 1 (cont_frame_pool.C 234)
run_start(fno, free) == fno - free + 1

\* the scan of get_frames (cont_frame_pool.C 230-237): the first fno at which
\* _n_frames consecutive frames have been seen free; nframes if there is none
RECURSIVE scan(_, _, _, _)
scan(p, n, fno, free) ==
    IF fno >= p.nframes THEN [found |-> FALSE, start |-> 0]
    ELSE LET f1 == IF get_state(p, fno) = "Free" THEN free + 1 ELSE 0
         IN  IF f1 = n THEN [found |-> TRUE, start |-> run_start(fno, f1)]
             ELSE scan(p, n, fno + 1, f1)

\* ContFramePool::get_frames (cont_frame_pool.C 216-254)
get_frames(p, n) ==
    IF n > p.nFreeFrames
    THEN [ok |-> FALSE, ret |-> 0, p |-> p]
    ELSE LET s == scan(p, n, 0, 0) IN
         IF ~s.found
         THEN [ok |-> FALSE, ret |-> 0, p |-> p]
         ELSE LET p1 == set_range(p, s.start, s.start + n, "Used")
                  p2 == set_state(p1, s.start, "HoS")
              IN  [ok |-> TRUE, ret |-> s.start + p.base_frame_no,
                   p |-> [p2 EXCEPT !.nFreeFrames = p2.nFreeFrames - n]]

\* the loop of mark_inaccessible (cont_frame_pool.C 260-262)
RECURSIVE mark_used(_, _, _)
mark_used(p, fno, to) ==
    IF fno >= to THEN p
    ELSE mark_used(set_state(p, Wrap32(fno - p.base_frame_no), "Used"), fno + 1, to)

\* ContFramePool::mark_inaccessible (cont_frame_pool.C 256-266)
mark_inaccessible(p, b, n) ==
    set_state(mark_used(p, b, b + n), b, "HoS")

\* the do-while of _release_frames (cont_frame_pool.C 279-282)
RECURSIVE release_loop(_, _)
release_loop(p, fno) ==
    LET p1 == [set_state(p, fno, "Free") EXCEPT !.nFreeFrames = p.nFreeFrames + 1]
        f1 == fno + 1
    IN  IF f1 \in DOMAIN p1.bitmap /\ get_state(p1, f1) = "Used" /\ f1 < p1.nframes
        THEN release_loop(p1, f1)
        ELSE p1

\* ContFramePool::_release_frames (cont_frame_pool.C 268-285)
release_frames_of(p, first) ==
    IF get_state(p, first) # "HoS" THEN p ELSE release_loop(p, first)

\* ContFramePool::release_frames (cont_frame_pool.C 287-308) with the modelled
\* pool the only one on the list
release_frames(p, f) ==
    LET adjusted_fno == Wrap32(f - p.base_frame_no)
    IN  IF adjusted_fno < p.nframes THEN release_frames_of(p, adjusted_fno) ELSE p

\* the frame numbers callers pass: the pool's frames and one on either side
FrameArgs(p) ==
    {f \in (p.base_frame_no - 1)..(p.base_frame_no + p.nframes) : f >= 0}

PoolFrames(p) == p.base_frame_no..(p.base_frame_no + p.nframes - 1)
RangeFrames(b, n) == b..(b + n - 1)

NoPev == [op |-> "none", f |-> 0, n |-> 0, ok |-> FALSE, undo |-> FALSE,
          restored |-> FALSE]
NoSnap == [bitmap |-> <<>>, nFreeFrames |-> 0]
NoLev == [op |-> "none", f |-> 0, n |-> 0, ret |-> 0]

\* the states of the pool's frames and its free count are those recorded in sn
SameAs(p, sn) ==
    /\ p.nFreeFrames = sn.nFreeFrames
    /\ \A i \in 0..(p.nframes - 1) : p.bitmap[i] = sn.bitmap[i]

\* a pool as kernel.C constructs it: any base, bitmap inside the pool
\* (info_frame_no = 0) or in a frame outside of it
PoolInitWith(bases, infos, junks) ==
    /\ \E base \in bases, info \in infos, junk \in junks :
            pool = ContFramePool(base, NFrames, info, junk)
    /\ owned = {}
    /\ got = <<>>
    /\ holes = {}
    /\ snap = NoSnap
    /\ pev = NoPev
    /\ pools = <<>>
    /\ lev = NoLev

\* a call of get_frames(n)
GetFrames(n) ==
    LET r == get_frames(pool, n) IN
    /\ UNCHANGED <<schedVars, vmVars, pgVars>>
    /\ pool' = r.p
    /\ owned' = IF r.ok THEN owned \cup {r.ret} ELSE owned
    /\ got' = IF r.ok THEN Append(got, [r |-> r.ret, n |-> n]) ELSE got
    /\ snap' = IF r.ok
               THEN [bitmap |-> pool.bitmap, nFreeFrames |-> pool.nFreeFrames]
               ELSE NoSnap
    /\ pev' = [NoPev EXCEPT !.op = "get", !.f = r.ret, !.n = n, !.ok = r.ok]
    /\ UNCHANGED <<holes, listVars>>

\* a call of mark_inaccessible(b, n) on a range of the pool that is free,
\* as the caller has to know (kernel.C marks the memory hole at boot); no
\* range is marked twice
MarkInaccessible(b, n) ==
    /\ UNCHANGED <<schedVars, vmVars, pgVars>>
    /\ Cardinality(holes) < MaxMarks
    /\ [b |-> b, n |-> n] \notin holes
    /\ RangeFrames(b, n) \subseteq PoolFrames(pool)
    /\ \A f \in RangeFrames(b, n) : get_state(pool, f - pool.base_frame_no) = "Free"
    /\ pool' = mark_inaccessible(pool, b, n)
    /\ holes' = holes \cup {[b |-> b, n |-> n]}
    /\ pev' = [NoPev EXCEPT !.op = "mark", !.f = b, !.n = n, !.ok = TRUE]
    /\ snap' = NoSnap
    /\ UNCHANGED <<owned, got, listVars>>

Releasable(p, own, f) ==
    IF f \in PoolFrames(p)
    THEN f \in own \/ get_state(p, f - p.base_frame_no) # "HoS"
    ELSE TRUE

\* a call of release_frames(f): for a frame get_frames returned, or one of the
\* calls the pool rejects (a frame of no pool, a frame that is no head)
ReleaseFrames(f) ==
    /\ UNCHANGED <<schedVars, vmVars, pgVars>>
    /\ Releasable(pool, owned, f)
    /\ pool' = release_frames(pool, f)
    /\ owned' = owned \ {f}
    /\ got' = <<>>
    /\ LET undo == pev.op = "get" /\ pev.ok /\ pev.f = f IN
       pev' = [NoPev EXCEPT !.op = "release", !.f = f, !.ok = (f \in owned),
                            !.n = IF undo THEN pev.n ELSE 0,
                            !.undo = undo,
                            !.restored = (undo /\ SameAs(release_frames(pool, f), snap))]
    /\ snap' = NoSnap
    /\ UNCHANGED <<holes, listVars>>

(***************************************************************************)
(* The list of frame pools (ContFramePool::head, cont_frame_pool.C 131):   *)
(* the kernel constructs two pools over disjoint ranges of frames, and the *)
(* static release_frames finds the pool of a frame by walking the list.    *)
(***************************************************************************)
\* the pools the kernel constructs (kernel.C: kernel_mem_pool, process_mem_pool)
NPools == 2
\* the frames of the pools of the list
ListFrames == 4
\* the base frames of the pools: ranges that leave a frame between them
ListBases == {1 + k * (ListFrames + 1) : k \in 0..(NPools - 1)}
\* the frame numbers callers pass to release_frames
ListArgs == 0..(NPools * (ListFrames + 1) + 1)
\* the frame given as info_frame_no to a pool that keeps its bitmap outside
ListInfoFrame == NPools * (ListFrames + 1) + 1

\* a walk that hands the frame to the pool at the head of the list whatever
\* its range (used to test claim C26)
release_frames_head(ps, f) ==
    IF ps = <<>> THEN ps
    ELSE <<release_frames_of(Head(ps), Wrap32(f - Head(ps).base_frame_no) % Head(ps).nframes)>>
             \o Tail(ps)

\* ContFramePool::release_frames (cont_frame_pool.C 287-308): the walk from
\* head over next, ps being the pools from the cursor on
RECURSIVE release_frames_list(_, _)
release_frames_list(ps, f) ==
    IF ps = <<>> THEN ps
    ELSE LET cursor == Head(ps)
             adjusted_fno == Wrap32(f - cursor.base_frame_no)
         IN  IF adjusted_fno < cursor.nframes
             THEN <<release_frames_of(cursor, adjusted_fno)>> \o Tail(ps)
             ELSE <<cursor>> \o release_frames_list(Tail(ps), f)

\* new ContFramePool(base, ListFrames, info) on frames no pool of the list
\* holds: next = head; head = this (cont_frame_pool.C 137-138)
NewPool(base, info, junk) ==
    /\ UNCHANGED <<schedVars, vmVars, pgVars>>
    /\ UNCHANGED <<pool, owned, got, holes, snap, pev>>
    /\ Len(pools) < NPools
    /\ \A i \in DOMAIN pools : pools[i].base_frame_no # base
    /\ pools' = <<ContFramePool(base, ListFrames, info,
                                [i \in 0..(Slots(ListFrames) - 1) |-> junk])>> \o pools
    /\ lev' = [NoLev EXCEPT !.op = "new", !.f = base, !.n = info, !.ret = Len(pools)]

\* get_frames(n) on the i-th pool of the list
ListGetFrames(i, n) ==
    /\ UNCHANGED <<schedVars, vmVars, pgVars>>
    /\ UNCHANGED <<pool, owned, got, holes, snap, pev>>
    /\ i \in DOMAIN pools
    /\ LET r == get_frames(pools[i], n) IN
       /\ pools' = [pools EXCEPT ![i] = r.p]
       /\ lev' = [NoLev EXCEPT !.op = "get"]

\* ContFramePool::release_frames(f), for any frame number
ListReleaseFrames(f) ==
    /\ UNCHANGED <<schedVars, vmVars, pgVars>>
    /\ UNCHANGED <<pool, owned, got, holes, snap, pev>>
    /\ pools # <<>>
    /\ pools' = release_frames_list(pools, f)
    /\ lev' = [NoLev EXCEPT !.op = "release", !.f = f]

(***************************************************************************)
(* VMPool (vm_pool.C).  A pool value v is [base_address, size, alloc,      *)
(* free]; alloc and free are the two region arrays kept in the first two   *)
(* pages of the pool's own window.                                         *)
(***************************************************************************)
\* Machine::PAGE_SIZE, scaled down
PageSize == 2
\* pages of the modelled pool's window
VMPages == 4
\* MAX_REGIONS, the capacity of alloc[] and of free[], scaled down
MaxRegions == 3

VMBase == 4 * PageSize
VMSize == VMPages * PageSize

Region(b, sz) == [base_address |-> b, size |-> sz]
ZeroPage == [i \in 0..(MaxRegions - 1) |-> Region(0, 0)]

\* the constructor (vm_pool.C 48-76), after the memset of the two pages
VMPool(base, sz) ==
    [base_address |-> base, size |-> sz,
     alloc |-> [ZeroPage EXCEPT ![0] = Region(base, PageSize * 2)],
     free  |-> [ZeroPage EXCEPT ![0] = Region(base + PageSize * 2, sz - 2 * PageSize)]]

\* a search that stops at the last index that passes (used to test claim C13)
last_slot(S) ==
    IF S = {} THEN MaxRegions ELSE CHOOSE i \in S : \A j \in S : i >= j

\* the index at which a loop over an array from 0 up stops, S being the
\* indices whose entry passes the loop's test: the first of S, MaxRegions if
\* there is none
first_slot(S) ==
    IF S = {} THEN MaxRegions ELSE CHOOSE i \in S : \A j \in S : i <= j

RegionSlots == 0..(MaxRegions - 1)

\* a size check that also turns down the largest size that fits (used to
\* test claim C11)
invalid_size_ge(v, sz) == sz = 0 \/ sz >= v.size - 2 * PageSize

\* VMPool::allocate, the test on _size (vm_pool.C 102)
invalid_size(v, sz) == sz = 0 \/ sz > v.size - 2 * PageSize

\* a size that is recorded as requested (used to test claim C12)
adjusted_size_as_asked(sz) == sz

\* VMPool::allocate, adj_size (vm_pool.C 108)
adjusted_size(sz) == ((sz + PageSize - 1) \div PageSize) * PageSize

\* VMPool::allocate (vm_pool.C 98-143); ret 0 is the failure value
allocate(v, sz) ==
    IF invalid_size(v, sz)
    THEN [ret |-> 0, error |-> "INVALID_SIZE", v |-> v]
    ELSE LET adj_size == adjusted_size(sz)
             idx == first_slot({k \in RegionSlots : v.free[k].size >= adj_size})
         IN  IF idx = MaxRegions
             THEN [ret |-> 0, error |-> "NO_FREE_REGION", v |-> v]
             ELSE LET new_addr == v.free[idx].base_address
                      i == first_slot({k \in RegionSlots : v.alloc[k].size = 0})
                  IN  IF i = MaxRegions
                      THEN [ret |-> 0, error |-> "NO_ALLOC_REGION", v |-> v]
                      ELSE [ret |-> new_addr, error |-> "none",
                            v |-> [v EXCEPT
                                     !.alloc[i] = Region(new_addr, adj_size),
                                     !.free[idx] = Region(
                                         v.free[idx].base_address + adj_size,
                                         v.free[idx].size - adj_size)]]

\* VMPool::release (vm_pool.C 145-194), the updates of the two arrays;
\* freed is the set of page addresses passed to free_page
release(v, start) ==
    IF start < v.base_address \/ start >= v.base_address + v.size
    THEN [error |-> "OOB_ADDR", v |-> v, freed |-> {}]
    ELSE LET idx == first_slot({k \in RegionSlots :
                           start = v.alloc[k].base_address /\ v.alloc[k].size > 0})
         IN  IF idx = MaxRegions
             THEN [error |-> "INVALID_ADDR", v |-> v, freed |-> {}]
             ELSE LET region_size == v.alloc[idx].size
                      i == first_slot({k \in RegionSlots : v.free[k].size = 0})
                  IN  IF i = MaxRegions
                      THEN [error |-> "NO_FREE_REGION", v |-> v, freed |-> {}]
                      ELSE [error |-> "none",
                            v |-> [v EXCEPT
                                     !.free[i] = Region(start, region_size),
                                     !.alloc[idx].size = 0],
                            freed |-> {a \in start..(start + region_size - 1) :
                                         (a - start) % PageSize = 0}]

\* VMPool::is_legitimate (vm_pool.C 196-211)
is_legitimate(v, address) ==
    \/ address >= v.base_address /\ address < v.base_address + 2 * PageSize
    \/ \E i \in 0..(MaxRegions - 1) :
         address >= v.alloc[i].base_address
           /\ address < v.alloc[i].base_address + v.alloc[i].size

\* What the arrays read as after release has passed the pages holding them to
\* free_page (PageTable::free_page returns the frame to the process pool and
\* unmaps the page): the next access faults and is backed by whichever frame
\* get_frames(1) finds first - the page's old frame, the other array's old
\* frame, or another frame, here one that reads as zeroes.
ArraysAfterFree(v, freed) ==
    LET allocGone == v.base_address \in freed
        freeGone  == (v.base_address + PageSize) \in freed
        allocNow  == IF allocGone THEN {v.alloc, v.free, ZeroPage} ELSE {v.alloc}
        freeNow   == IF freeGone THEN {v.free, v.alloc, ZeroPage} ELSE {v.free}
    IN  {[v EXCEPT !.alloc = a, !.free = f] :
            <<a, f>> \in {x \in allocNow \X freeNow :
                 \/ ~allocGone /\ ~freeGone
                 \/ x[1] # x[2]
                 \/ x[1] = ZeroPage}}

\* the addresses callers pass to release: every page of the window, an
\* address inside a page, and one address on either side of the window
ReleaseArgs ==
    {VMBase + k * PageSize : k \in 0..(VMPages - 1)}
        \cup {VMBase - 1, VMBase + 2 * PageSize + 1, VMBase + VMSize}

NoVev == [op |-> "none", arg |-> 0, ret |-> 0, error |-> "none"]

\* the pages that hold alloc[] and free[] (vm_pool.C 62-63)
alloc_page(v) == v.base_address
free_page_of(v) == v.base_address + PageSize

\* the constructor's memset of both pages leaves them mapped (vm_pool.C 65-66)
VMInit ==
    /\ vm = VMPool(VMBase, VMSize)
    /\ vev = NoVev
    /\ vmapped = {alloc_page(vm), free_page_of(vm)}

\* the array pages a call of allocate reads or writes: none when the size is
\* turned down, free[] in the first loop, alloc[] in the second
allocate_touches(v, sz) ==
    IF invalid_size(v, sz) THEN {}
    ELSE IF \A k \in RegionSlots : v.free[k].size < adjusted_size(sz)
    THEN {free_page_of(v)}
    ELSE {free_page_of(v), alloc_page(v)}

\* the array pages a call of release reads or writes: none for an address
\* outside the window, alloc[] in the first loop, free[] in the second
release_touches(v, start) ==
    IF start < v.base_address \/ start >= v.base_address + v.size THEN {}
    ELSE IF \A k \in RegionSlots :
               ~(start = v.alloc[k].base_address /\ v.alloc[k].size > 0)
    THEN {alloc_page(v)}
    ELSE {alloc_page(v), free_page_of(v)}

\* a call of allocate(sz)
Allocate(sz) ==
    LET r == allocate(vm, sz) IN
    /\ UNCHANGED <<schedVars, poolVars, pgVars>>
    /\ vm' = r.v
    /\ vmapped' = vmapped \cup allocate_touches(vm, sz)
    /\ vev' = [NoVev EXCEPT !.op = "allocate", !.arg = sz, !.ret = r.ret,
                            !.error = r.error]

\* a call of release(a), with the pages it frees
Release(a) ==
    LET r == release(vm, a) IN
    /\ UNCHANGED <<schedVars, poolVars, pgVars>>
    /\ vm' \in ArraysAfterFree(r.v, r.freed)
    /\ vmapped' = (vmapped \cup release_touches(vm, a)) \ r.freed
    /\ vev' = [NoVev EXCEPT !.op = "release", !.arg = a, !.error = r.error]

(***************************************************************************)
(* PageTable (page_table.C; src/unnamed/part_004 is its later revision,    *)
(* which adds the destructor).  Physical memory is modelled for the frames *)
(* that are read as page directories or page tables: mem[f][i] is entry i  *)
(* of frame f, an entry being [frame, flags] with flags the low two bits   *)
(* (bit 0 present, bit 1 read/write).  Page table objects are numbered;    *)
(* the kernel page table (kernel.C: pt1) is object 1.                      *)
(***************************************************************************)
\* ENTRIES_PER_PAGE, scaled down: entries of a page directory or page table
ENTRIES_PER_PAGE == 8
\* KERNEL_PDE_LIMIT, scaled down: directory entries shared by all page tables
KERNEL_PDE_LIMIT == 3
\* KERNEL_POOL_START_FRAME, scaled down; the kernel pool ends with the
\* directly mapped memory
KernelPoolBase == 1
\* PROCESS_POOL_SIZE, scaled down; the pool starts behind the directly mapped
\* memory and its last frame is the memory hole
ProcFrames == 6
\* page table objects: the kernel page table and the others
NPageTables == 2

kernel_page_table == 1
PageTables == 1..NPageTables
NoDir == 0 - 1
NoFrame == 0 - 1
\* the size of the process pool of a kernel that runs a thread with its
\* own address space: room for its page table, the management pages of its
\* VM pool and its stack
ThreadProcFrames == ProcFrames + 2
AllFrames == 0..(ENTRIES_PER_PAGE + ThreadProcFrames - 1)
EntryIndexes == 0..(ENTRIES_PER_PAGE - 1)

\* the entry values the code writes: 0 | 2 and (PAGE_SIZE * f) | 3
NotPresentEntry == [frame |-> 0, flags |-> 2]
PresentEntry(f) == [frame |-> f, flags |-> 3]
\* (entry & 1) != 0
present(e) == e.flags % 2 = 1

\* (addr >> 22) & 0x3FF and (addr >> 12) & 0x3FF, scaled down
PDEIndex(a) == (a \div PageSize) \div ENTRIES_PER_PAGE
PTEIndex(a) == (a \div PageSize) % ENTRIES_PER_PAGE
\* the directory entry of the recursive mapping (page_table.C 77)
RecursiveSlot == KERNEL_PDE_LIMIT - 1

\* the MMU's two-level walk from the directory in cr3 through directory
\* entry i and table entry j: the frame reached, NoFrame for a page fault
Walk(s, i, j) ==
    LET pde == s.mem[s.cr3][i] IN
    IF ~present(pde) THEN NoFrame
    ELSE LET pte == s.mem[pde.frame][j] IN
         IF ~present(pte) THEN NoFrame ELSE pte.frame

\* the frame an access to virtual address a reaches
Translate(s, a) == Walk(s, PDEIndex(a), PTEIndex(a))

\* PageTable::PTE_address: the frame that holds the PTE of a, reached through
\* the recursive mapping of the directory in cr3
PTE_address(s, a) == Walk(s, RecursiveSlot, PDEIndex(a))

\* a frame of the directly mapped memory is accessed at its own address
DirectlyMapped(s, f) == Translate(s, f * PageSize) = f

\* the kernel VM pool's window and the window of a thread's VM pool
\* (kernel.C: 512 MB; thread.C 178: 1 << 30), scaled down
KernelWindow == ENTRIES_PER_PAGE * PageSize
UserWindow == KERNEL_PDE_LIMIT * ENTRIES_PER_PAGE * PageSize
\* a thread's VM pool once the thread's stack is allocated in it
\* (thread.C 178-184)
UserPool == allocate(VMPool(UserWindow, VMSize), 1).v

\* the loops of handle_fault over kernel_head_pool and over
\* current_page_table->head_pool (page_table.C 109-118); v is the kernel VM
\* pool
claimed(s, v, a) ==
    \/ is_legitimate(v, a)
    \/ /\ s.head_pool[s.current_page_table]
       /\ is_legitimate(UserPool, a)

\* the error handle_fault reports before it touches any table
\* (page_table.C 103-121), with the two tests in the other order (used to
\* test claim C15)
fault_error_swapped(err, legit) ==
    IF ~legit THEN "INVALID_FAULT"
    ELSE IF err % 2 = 1 THEN "PROTECTION_FAULT" ELSE "none"

\* the error handle_fault reports before it touches any table
\* (page_table.C 103-121)
fault_error(err, legit) ==
    IF err % 2 = 1 THEN "PROTECTION_FAULT"
    ELSE IF ~legit THEN "INVALID_FAULT" ELSE "none"

\* ContFramePool::release_frames over the list of the two pools
release_any(s, f) ==
    [s EXCEPT !.kernel_mem_pool = release_frames(s.kernel_mem_pool, f),
              !.process_mem_pool = release_frames(s.process_mem_pool, f)]

\* an access that faults on an address no pool claims: handle_fault reports
\* INVALID_FAULT, returns, and the access faults again, for ever
Stuck(s) == [s EXCEPT !.stuck = TRUE]

\* handle_fault, the directory part (page_table.C 126-145)
fault_directory(s, a) ==
    LET D == s.page_directory[s.current_page_table] IN
    IF ~DirectlyMapped(s, D) THEN Stuck(s)
    ELSE IF present(s.mem[D][PDEIndex(a)]) THEN s
    ELSE LET g  == get_frames(s.process_mem_pool, 1)
             s1 == [s EXCEPT !.process_mem_pool = g.p,
                             !.mem[D][PDEIndex(a)] = PresentEntry(g.ret)]
             T  == PTE_address(s1, a)
         IN  IF T = NoFrame THEN Stuck(s1)
             ELSE [s1 EXCEPT !.mem[T] = [i \in EntryIndexes |-> NotPresentEntry]]

\* handle_fault, the page part (page_table.C 149-160)
fault_page(s, a) ==
    LET T == PTE_address(s, a) IN
    IF T = NoFrame THEN Stuck(s)
    ELSE IF present(s.mem[T][PTEIndex(a)]) THEN s
    ELSE LET g == get_frames(s.process_mem_pool, 1) IN
         [s EXCEPT !.process_mem_pool = g.p,
                   !.mem[T][PTEIndex(a)] = PresentEntry(g.ret)]

\* PageTable::handle_fault (page_table.C 97-174)
handle_fault(s, a, err, legit) ==
    LET error == fault_error(err, legit) IN
    IF error # "none" THEN [s |-> s, error |-> error]
    ELSE LET s1 == fault_directory(s, a) IN
         [s |-> IF s1.stuck THEN s1 ELSE fault_page(s1, a), error |-> "none"]

\* PageTable::load (page_table.C 83-88)
load(s, id) ==
    [s EXCEPT !.current_page_table = id, !.cr3 = s.page_directory[id]]

\* the end of free_page: load() in page_table.C 213, write_cr3 of the
\* object's directory in the later revision (part_004 265-267)
flush(s, id) ==
    IF s.rev = 1 THEN load(s, id) ELSE [s EXCEPT !.cr3 = s.page_directory[id]]

\* PageTable::free_page (page_table.C 190-214)
free_page(s, id, a) ==
    LET T == PTE_address(s, a) IN
    IF T = NoFrame THEN Stuck(s)
    ELSE LET pte == s.mem[T][PTEIndex(a)] IN
         IF ~present(pte) THEN s
         ELSE LET s1 == release_any(s, pte.frame)
                  s2 == [s1 EXCEPT !.mem[T][PTEIndex(a)] = NotPresentEntry]
              IN  flush(s2, id)

\* the kernel branch of the constructor (page_table.C 45-53): one page table
\* from the process pool for each of the first KERNEL_PDE_LIMIT entries
RECURSIVE kernel_tables(_, _, _)
kernel_tables(s, D, i) ==
    IF i >= KERNEL_PDE_LIMIT THEN s
    ELSE LET g == get_frames(s.process_mem_pool, 1) IN
         kernel_tables(
             [s EXCEPT !.process_mem_pool = g.p,
                       !.mem[g.ret] = [j \in EntryIndexes |-> NotPresentEntry],
                       !.mem[D][i] = PresentEntry(g.ret)],
             D, i + 1)

\* PageTable::PageTable for the first page table (page_table.C 29-67, 75-77),
\* run before paging is enabled
kernel_constructor(s) ==
    LET g  == get_frames(s.kernel_mem_pool, 1)
        D  == g.ret
        s1 == kernel_tables([s EXCEPT !.kernel_mem_pool = g.p], D, 0)
        T0 == s1.mem[D][0].frame
        s2 == [s1 EXCEPT
                 !.mem[T0] = [j \in EntryIndexes |-> PresentEntry(j)],
                 !.mem[D] = [i \in EntryIndexes |->
                               IF i < KERNEL_PDE_LIMIT THEN s1.mem[D][i]
                               ELSE NotPresentEntry]]
    IN  [s2 EXCEPT !.mem[D][RecursiveSlot] = PresentEntry(D),
                   !.page_directory[kernel_page_table] = D]

\* PageTable::PageTable for every later page table (page_table.C 36, 68-77):
\* the entries from KERNEL_PDE_LIMIT on keep what the frame held
constructor(s, id) ==
    LET g  == get_frames(s.kernel_mem_pool, 1)
        D  == g.ret
        KD == s.page_directory[kernel_page_table]
        s1 == [s EXCEPT !.kernel_mem_pool = g.p,
                        !.page_directory[id] = D,
                        !.head_pool[id] = FALSE]
    IN  IF ~DirectlyMapped(s, D) \/ ~DirectlyMapped(s, KD) THEN Stuck(s1)
        ELSE [s1 EXCEPT !.mem[D] =
                 [i \in EntryIndexes |->
                    IF i = RecursiveSlot THEN PresentEntry(D)
                    ELSE IF i < KERNEL_PDE_LIMIT THEN s.mem[KD][i]
                    ELSE s.mem[D][i]]]

\* the loop of the destructor (part_004 108-114)
RECURSIVE release_tables(_, _, _)
release_tables(s, D, i) ==
    IF i >= ENTRIES_PER_PAGE THEN s
    ELSE release_tables(
             IF present(s.mem[D][i]) THEN release_any(s, s.mem[D][i].frame) ELSE s,
             D, i + 1)

\* PageTable::~PageTable (part_004 105-128)
destructor(s, id) ==
    LET D == s.page_directory[id] IN
    IF ~DirectlyMapped(s, D) THEN Stuck(s)
    ELSE LET s1 == release_tables(s, D, KERNEL_PDE_LIMIT)
             T  == PTE_address(s1, D * PageSize)
         IN  IF T = NoFrame THEN Stuck(s1)
             ELSE LET s2 == release_any(s1, D)
                      s3 == [s2 EXCEPT !.mem[T][PTEIndex(D * PageSize)] = NotPresentEntry,
                                       !.page_directory[id] = NoDir,
                                       !.head_pool[id] = FALSE]
                  IN  [s3 EXCEPT !.cr3 = s3.page_directory[s3.current_page_table]]

PG == [mem |-> mem, page_directory |-> page_directory, head_pool |-> head_pool,
       current_page_table |-> current_page_table, cr3 |-> cr3,
       kernel_mem_pool |-> kernel_mem_pool, process_mem_pool |-> process_mem_pool,
       rev |-> rev, stuck |-> stuck]

SetPG(s) ==
    /\ mem' = s.mem
    /\ page_directory' = s.page_directory
    /\ head_pool' = s.head_pool
    /\ current_page_table' = s.current_page_table
    /\ cr3' = s.cr3
    /\ kernel_mem_pool' = s.kernel_mem_pool
    /\ process_mem_pool' = s.process_mem_pool
    /\ rev' = s.rev
    /\ stuck' = s.stuck

\* the Free frames of a pool, as frame numbers
FreeFramesOf(p) ==
    {p.base_frame_no + i : i \in {j \in 0..(p.nframes - 1) : p.bitmap[j] = "Free"}}

NoGev == [op |-> "none", id |-> 0, a |-> 0, err |-> 0, error |-> "none"]
NoThr == [live |-> FALSE, id |-> 0, kfree |-> 0, pfree |-> 0]

\* what the boot code of kernel.C leaves: the two frame pools, the memory
\* hole, the kernel page table constructed and loaded; boot is what the
\* frames held before (every entry of every frame reads as junk)
FreeJunk(n) == [i \in 0..(Slots(n) - 1) |-> "Free"]
BootWith(junk, r, n) ==
    LET kn == ENTRIES_PER_PAGE - KernelPoolBase
        k0 == ContFramePool(KernelPoolBase, kn, 0, FreeJunk(kn))
        gi == get_frames(k0, needed_info_frames(n))
        p0 == ContFramePool(ENTRIES_PER_PAGE, n, gi.ret, FreeJunk(n))
        p1 == mark_inaccessible(p0, ENTRIES_PER_PAGE + n - 1, 1)
        s0 == [mem |-> [f \in AllFrames |-> [i \in EntryIndexes |-> junk]],
               page_directory |-> [id \in PageTables |-> NoDir],
               head_pool |-> [id \in PageTables |-> FALSE],
               current_page_table |-> kernel_page_table,
               cr3 |-> 0,
               kernel_mem_pool |-> gi.p,
               process_mem_pool |-> p1,
               rev |-> r,
               stuck |-> FALSE]
    IN  load(kernel_constructor(s0), kernel_page_table)
Boot(junk, r) == BootWith(junk, r, ProcFrames)

\* what a frame may hold before the kernel writes it: zeroes, or a word
\* that reads as a present entry
JunkEntries == {[frame |-> 0, flags |-> 0], PresentEntry(ENTRIES_PER_PAGE)}

IsPG(s) ==
    /\ mem = s.mem
    /\ page_directory = s.page_directory
    /\ head_pool = s.head_pool
    /\ current_page_table = s.current_page_table
    /\ cr3 = s.cr3
    /\ kernel_mem_pool = s.kernel_mem_pool
    /\ process_mem_pool = s.process_mem_pool
    /\ rev = s.rev
    /\ stuck = s.stuck

PGInitWith(junks, revs) ==
    /\ \E junk \in junks, r \in revs : IsPG(Boot(junk, r))
    /\ gev = NoGev
    /\ thr = NoThr

PGIdle == PGInitWith({[frame |-> 0, flags |-> 0]}, {1})

\* the addresses of the two windows that are touched and freed: the first
\* management page and the two pages behind the management pages
WindowAddrs ==
    {w + k * PageSize : w \in {KernelWindow, UserWindow}, k \in {0, 2, 3}}

\* the addresses that fault: those, an address inside a page, and the pages
\* of the directly mapped memory
FaultAddrs ==
    WindowAddrs \cup {KernelWindow + 2 * PageSize + 1}
        \cup {f * PageSize : f \in EntryIndexes}

\* the addresses at which a protection violation is tried
ProtectionAddrs == {0, KernelWindow, UserWindow + 3 * PageSize}

\* a page fault: the MMU raises it with a clear bit 0 for an access to a page
\* that is not present, with bit 0 set for a protection violation on a page
\* that is present
HandleFault(a, err) ==
    LET legit == claimed(PG, vm, a)
        r == handle_fault(PG, a, err, legit)
    IN  /\ UNCHANGED <<schedVars, poolVars, vmVars, thr>>
        /\ ~stuck
        /\ IF err % 2 = 0 THEN Translate(PG, a) = NoFrame
           ELSE a \in ProtectionAddrs /\ Translate(PG, a) # NoFrame
        /\ SetPG(r.s)
        /\ gev' = [NoGev EXCEPT !.op = "fault", !.a = a, !.err = err,
                                !.error = r.error]

\* a call of free_page on a constructed page table
FreePage(id, a) ==
    LET r == free_page(PG, id, a)
    IN  /\ UNCHANGED <<schedVars, poolVars, vmVars, thr>>
        /\ ~stuck
        /\ page_directory[id] # NoDir
        /\ SetPG(r)
        /\ gev' = [NoGev EXCEPT !.op = "free_page", !.id = id, !.a = a]

\* new PageTable()
Construct(id) ==
    /\ UNCHANGED <<schedVars, poolVars, vmVars, thr>>
    /\ ~stuck
    /\ page_directory[id] = NoDir
    /\ SetPG(constructor(PG, id))
    /\ gev' = [NoGev EXCEPT !.op = "construct", !.id = id]

\* delete of a page table other than the kernel's and the current one
Destroy(id) ==
    /\ UNCHANGED <<schedVars, poolVars, vmVars, thr>>
    /\ ~stuck
    /\ rev = 2
    /\ id # kernel_page_table /\ id # current_page_table
    /\ page_directory[id] # NoDir
    /\ SetPG(destructor(PG, id))
    /\ gev' = [NoGev EXCEPT !.op = "destroy", !.id = id]

\* a call of load on a constructed page table
Load(id) ==
    /\ UNCHANGED <<schedVars, poolVars, vmVars, thr>>
    /\ ~stuck
    /\ page_directory[id] # NoDir
    /\ SetPG(load(PG, id))
    /\ gev' = [NoGev EXCEPT !.op = "load", !.id = id]

\* register_pool for the VM pool of a thread (page_table.C 176-188; the
\* kernel VM pool is on kernel_head_pool from boot on)
RegisterPool(id) ==
    /\ UNCHANGED <<schedVars, poolVars, vmVars, thr>>
    /\ ~stuck
    /\ id # kernel_page_table
    /\ page_directory[id] # NoDir
    /\ ~head_pool[id]
    /\ SetPG([PG EXCEPT !.head_pool[id] = TRUE])
    /\ gev' = [NoGev EXCEPT !.op = "register", !.id = id]

\* the stack of a thread with its own address space: the first region its
\* VM pool hands out, one page
StackAddr == UserWindow + 2 * PageSize

\* an access of the running code to address a: a page that is not present
\* faults, and handle_fault is entered with a pool that claims the address
touch(s, a) ==
    IF s.stuck \/ Translate(s, a) # NoFrame THEN s
    ELSE handle_fault(s, a, 0, TRUE).s

\* Thread::Thread with a frame pool (thread.C 172-206): new PageTable and
\* load, new VMPool (vm_pool.C 48-73: register_pool, memset of the two
\* management pages), new char[_stack_size] from that pool, setup_context
\* pushing onto the end of the stack
thread_constructor(s, id) ==
    LET s1 == constructor(s, id)
        s2 == IF s1.stuck THEN s1 ELSE load(s1, id)
        s3 == [s2 EXCEPT !.head_pool[id] = TRUE]
        s4 == touch(s3, UserWindow)
        s5 == touch(s4, UserWindow + PageSize)
    IN  touch(s5, StackAddr)

\* Thread::~Thread (thread.C 230-242): load of the thread's page table,
\* delete[] stack through the thread's pool (VMPool::release calls free_page
\* for the pages of the region), load of the kernel page table
thread_destructor(s, id) ==
    LET s1 == load(s, id)
        s2 == free_page(s1, id, StackAddr)
    IN  IF s2.stuck THEN s2 ELSE load(s2, kernel_page_table)

\* new Thread(tf, stack_size, &MEMORY_POOL, frame_pool)
NewThread(id) ==
    /\ UNCHANGED <<schedVars, poolVars, vmVars>>
    /\ ~stuck
    /\ ~thr.live
    /\ page_directory[id] = NoDir
    /\ SetPG(thread_constructor(PG, id))
    /\ gev' = [NoGev EXCEPT !.op = "new_thread", !.id = id]
    /\ thr' = [live |-> TRUE, id |-> id,
               kfree |-> kernel_mem_pool.nFreeFrames,
               pfree |-> process_mem_pool.nFreeFrames]

\* delete of the thread, reached from Scheduler::terminate
DeleteThread(id) ==
    /\ UNCHANGED <<schedVars, poolVars, vmVars>>
    /\ ~stuck
    /\ thr.live /\ thr.id = id
    /\ SetPG(thread_destructor(PG, id))
    /\ gev' = [NoGev EXCEPT !.op = "delete_thread", !.id = id]
    /\ thr' = [thr EXCEPT !.live = FALSE]

(***************************************************************************)
(* The specifications: one per subsystem, over the same variables          *)
(***************************************************************************)

\* one fixed state of a subsystem, for the specifications of the others
SchedIdle == SchedInitWith(FALSE, NThreads, {1})
PoolIdle == PoolInitWith({0}, {0}, {[i \in NFrames..(Slots(NFrames) - 1) |-> "Free"]})

FifoInit == SchedIdle /\ PoolIdle /\ VMInit /\ PGIdle
RRInit == SchedInitWith(TRUE, RRThreads, 1..MaxHz) /\ PoolIdle /\ VMInit /\ PGIdle
PoolInit ==
    /\ SchedIdle
    /\ PoolInitWith({0, BaseNZ}, {0, BaseNZ + NFrames},
                    [NFrames..(Slots(NFrames) - 1) -> FrameStates])
    /\ VMInit
    /\ PGIdle

\* the FIFO scheduler: no handler on the timer interrupt
SchedNext ==
    \/ \E t \in Threads : add(t)
    \/ \E t \in Threads : first_dispatch(t)
    \/ \E t \in Threads : resume(t)
    \/ yield
    \/ terminate_self
    \/ \E t \in Threads \cup {NULL} : terminate(t)
    \/ term_delete
    \/ term_yield
SchedSpec == FifoInit /\ [][SchedNext]_vars

\* the round-robin scheduler: the same calls and the end-of-quantum timer
RRNext ==
    \/ \E t \in Threads : add(t)
    \/ \E t \in Threads : first_dispatch(t)
    \/ \E t \in Threads : resume(t)
    \/ yield
    \/ terminate_self
    \/ \E t \in Threads \cup {NULL} : terminate(t)
    \/ term_delete
    \/ term_yield
    \/ handle_interrupt
RRSpec == RRInit /\ [][RRNext]_vars

\* the boot sequence of main followed by the running kernel, with either
\* scheduler; main itself calls add and dispatch_to only
BootInit == BootInitWith(1..MaxHz) /\ PoolIdle /\ VMInit /\ PGIdle
BootNext ==
    \/ construct_scheduler
    \/ enable_interrupts
    \/ \E t \in Threads : construct_thread(t)
    \/ \E t \in Threads : add(t)
    \/ \E t \in Threads : first_dispatch(t)
    \/ \E t \in Threads : resume(t)
    \/ yield
    \/ terminate_self
    \/ \E t \in Threads \cup {NULL} : current # NULL /\ terminate(t)
    \/ term_delete
    \/ term_yield
    \/ handle_interrupt
BootSpec == BootInit /\ [][BootNext]_vars

\* the round-robin kernel with every scheduler call in two steps, its entry
\* and the rest, and the timer interrupt between any two steps
StepInit == RRInit
StepNext ==
    \/ \E op \in CallOps, t \in Threads \cup {NULL} : enter(op, t)
    \/ \E t \in Threads : callpc = [op |-> "add", t |-> t] /\ add(t)
    \/ \E t \in Threads : callpc = NoCall /\ first_dispatch(t)
    \/ \E t \in Threads : callpc = [op |-> "resume", t |-> t] /\ resume(t)
    \/ callpc = [op |-> "yield", t |-> NULL] /\ yield
    \/ callpc = [op |-> "terminate_self", t |-> current] /\ terminate_self
    \/ \E t \in Threads \cup {NULL} :
          callpc = [op |-> "terminate", t |-> t] /\ terminate(t)
    \/ callpc = NoCall /\ term_delete
    \/ callpc = [op |-> "term_yield", t |-> NULL] /\ term_yield
    \/ handle_interrupt
StepSpec == StepInit /\ [][StepNext]_vars

\* the frame pool
PoolNext ==
    \/ \E n \in 1..MaxReq : GetFrames(n)
    \/ \E b \in PoolFrames(pool), n \in 1..MaxReq : MarkInaccessible(b, n)
    \/ \E f \in FrameArgs(pool) : ReleaseFrames(f)
PoolSpec == PoolInit /\ [][PoolNext]_vars

\* the VM pool
VMNext ==
    \/ \E sz \in 0..(VMSize - 2 * PageSize + 1) : Allocate(sz)
    \/ \E a \in ReleaseArgs : Release(a)
VMSpec == FifoInit /\ [][VMNext]_vars

\* VMPool alone, freshly constructed with any size the constructor's assert
\* lets through (vm_pool.C 60), up to FreshPages pages; callers allocate any
\* size and release the first two pages after the management pages
FreshPages == 6
FreshSizes == (2 * PageSize + 1)..(FreshPages * PageSize)
FreshInit ==
    /\ SchedIdle
    /\ PoolIdle
    /\ \E S \in FreshSizes : vm = VMPool(VMBase, S)
    /\ vev = NoVev
    /\ vmapped = {alloc_page(vm), free_page_of(vm)}
    /\ PGIdle
FreshNext ==
    \/ \E sz \in 0..(FreshPages * PageSize - 2 * PageSize + 1) : Allocate(sz)
    \/ \E k \in 2..3 : Release(VMBase + k * PageSize)
VMFreshSpec == FreshInit /\ [][FreshNext]_vars

\* paging: the kernel after boot, built from either revision, on memory that
\* held zeroes or junk; the kernel VM pool sits in its window with one page
\* allocated, page tables are constructed, loaded, given their pool and
\* destroyed, and the pages of the windows are touched and freed
PGInit ==
    /\ SchedIdle
    /\ PoolIdle
    /\ vm = allocate(VMPool(KernelWindow, VMSize), PageSize).v
    /\ vev = NoVev
    /\ vmapped = {alloc_page(vm), free_page_of(vm)}
    /\ PGInitWith(JunkEntries, {1, 2})
PGNext ==
    \/ \E a \in FaultAddrs, err \in {0, 1} : HandleFault(a, err)
    \/ \E id \in PageTables, a \in WindowAddrs : FreePage(id, a)
    \/ \E id \in PageTables : Construct(id)
    \/ \E id \in PageTables : Destroy(id)
    \/ \E id \in PageTables : Load(id)
    \/ \E id \in PageTables : RegisterPool(id)
PGSpec == PGInit /\ [][PGNext]_vars

\* the round-robin kernel left to the timer: main adds the threads after
\* the first and dispatches the first one (kernel.C), threads run until the
\* timer preempts them or until they return from their thread function, and
\* the termination thread deletes; the timer keeps firing while interrupts
\* are enabled, and main and the termination thread keep running
main_dispatch == first_dispatch(1)
LiveNext ==
    \/ \E t \in Threads \ {1} : add(t)
    \/ main_dispatch
    \/ handle_interrupt
    \/ terminate_self
    \/ term_delete
    \/ term_yield
LiveInit == SchedInitWith(TRUE, NThreads, 1..MaxHz) /\ PoolIdle /\ VMInit /\ PGIdle
LiveFairness ==
    /\ WF_vars(main_dispatch)
    /\ WF_vars(handle_interrupt)
    /\ WF_vars(term_delete)
    /\ WF_vars(term_yield)
LiveSpec == LiveInit /\ [][LiveNext]_vars /\ LiveFairness

\* a thread with its own address space: the kernel after boot, with the
\* smaller or the larger process pool, touches and frees pages of its
\* window, then the thread is constructed and, later, deleted
ThreadInit ==
    /\ SchedIdle
    /\ PoolIdle
    /\ vm = allocate(VMPool(KernelWindow, VMSize), PageSize).v
    /\ vev = NoVev
    /\ vmapped = {alloc_page(vm), free_page_of(vm)}
    /\ \E junk \in JunkEntries, r \in {1, 2}, n \in {ProcFrames, ThreadProcFrames} :
          IsPG(BootWith(junk, r, n))
    /\ gev = NoGev
    /\ thr = NoThr
ThreadNext ==
    \/ \E a \in FaultAddrs, err \in {0, 1} : ~thr.live /\ HandleFault(a, err)
    \/ \E a \in WindowAddrs : ~thr.live /\ FreePage(kernel_page_table, a)
    \/ \E id \in PageTables \ {kernel_page_table} : NewThread(id)
    \/ \E id \in PageTables \ {kernel_page_table} : DeleteThread(id)
ThreadSpec == ThreadInit /\ [][ThreadNext]_vars

\* the frame pools of the kernel: constructed one after the other, in
\* either order, with the bitmap inside the pool or in a frame outside of
\* it, on memory that held anything; then frames are taken and released
ListInit ==
    /\ SchedIdle
    /\ PoolIdle
    /\ VMInit
    /\ PGIdle
ListNext ==
    \/ \E base \in ListBases, info \in {0, ListInfoFrame}, junk \in {"Free", "Used"} :
          NewPool(base, info, junk)
    \/ \E i \in 1..NPools, n \in 1..(ListFrames - 2) : ListGetFrames(i, n)
    \/ \E f \in ListArgs : ListReleaseFrames(f)
ListSpec == ListInit /\ [][ListNext]_vars

(***************************************************************************)
(* Properties of the dispatcher                                            *)
(***************************************************************************)
LastOrNull(s) == IF s = <<>> THEN NULL ELSE s[Len(s)]

\* the threads reached from h through the next links, at most fuel of them
RECURSIVE Linked(_, _, _)
Linked(nx, h, fuel) ==
    IF h = NULL \/ fuel = 0 THEN <<>>
    ELSE <<h>> \o Linked(nx, nx[h], fuel - 1)

\* C1: the ready queue is strict FIFO: as long as no thread has been
\* terminated, every yield dispatches the thread that has been queued longest
\* (threads that were dequeued and enqueued again included), and a yield on
\* an empty queue dispatches nothing and leaves the caller running.
C1_StrictFifo ==
    (ev.op = "yield" /\ Threads \subseteq alive /\ exiting = {}) =>
        /\ ev.got = ev.want
        /\ ev.got = NULL => current = ev.t

\* C2: a thread that calls terminate on itself sits in the termination
\* thread's cargo and is destroyed before any other thread gets the CPU, and
\* it never runs again.
C2_DestroyedBeforeOthersRun ==
    /\ \A t \in exiting \cap alive : current = termination_thread /\ cargo = t
    /\ current \notin exiting

\* C3: terminate(t) for a queued thread t, wherever it stands in the queue,
\* destroys t, nulls the caller's pointer, and leaves the other threads
\* linked in their order between the new head and the new tail.
C3_TerminateQueuedUnlinks ==
    (ev.op = "terminate" /\ ev.want # NULL) =>
        /\ ev.flag
        /\ ev.ptr = NULL
        /\ ev.t \notin alive
        /\ queue.head = HeadOrNull(fifo)
        /\ queue.tail = LastOrNull(fifo)
        /\ Linked(next, queue.head, Cardinality(AllThreads) + 1) = fifo

\* C4: under round robin a thread that has not yielded since it was
\* dispatched is preempted (the handler runs resume(current) and yield) at
\* the hz-th timer tick handled since the dispatch, and at no earlier one.
C4_PreemptEveryHzTicks ==
    /\ (ev.op = "tick" /\ ev.flag) => ev.n < hz
    /\ (ev.op = "preempt" /\ ev.flag) => ev.n = hz

\* a thread that never yielded is preempted away to another thread, with a
\* quantum of more than one tick
C4_Witness ==
    /\ ev.op = "preempt" /\ ev.flag
    /\ hz > 1
    /\ current # ev.t

(***************************************************************************)
(* Properties of the frame pool                                            *)
(***************************************************************************)
FreeCount(p) == Cardinality({i \in 0..(p.nframes - 1) : p.bitmap[i] = "Free"})

\* C5: the ranges returned by successful get_frames calls with no release
\* in between lie inside the pool, do not overlap one another, and each has
\* its first frame marked HoS.
C5_RangesDisjointHoS ==
    /\ \A i \in DOMAIN got :
          /\ RangeFrames(got[i].r, got[i].n) \subseteq PoolFrames(pool)
          /\ get_state(pool, got[i].r - pool.base_frame_no) = "HoS"
    /\ \A i, j \in DOMAIN got :
          i # j => RangeFrames(got[i].r, got[i].n)
                     \cap RangeFrames(got[j].r, got[j].n) = {}

\* three allocations in a row on a pool with a nonzero base that holds an
\* inaccessible range
C5_Witness ==
    /\ Len(got) >= 3
    /\ pool.base_frame_no # 0
    /\ holes # {}

\* C6: releasing the range a successful get_frames has just returned puts
\* nFreeFrames and every frame's state back to what they were before the
\* get_frames call.
C6_GetThenReleaseRestores ==
    (pev.op = "release" /\ pev.undo) => pev.restored

\* C7: no successful get_frames returns a range that overlaps a range passed
\* to mark_inaccessible earlier.
C7_HolesNeverHandedOut ==
    (pev.op = "get" /\ pev.ok) =>
        \A h \in holes : RangeFrames(pev.f, pev.n) \cap RangeFrames(h.b, h.n) = {}

\* C8: nFreeFrames is the number of frames of the pool whose state is Free.
C8_FreeCountMatches == pool.nFreeFrames = FreeCount(pool)

\* C9: a Used frame is never the pool's first frame nor directly behind a
\* Free frame, and the first frame of every range passed to
\* mark_inaccessible is HoS, whatever the pool's base_frame_no.
C9_RunsStartWithHoS ==
    /\ \A i \in 0..(pool.nframes - 1) :
          get_state(pool, i) = "Used" => i > 0 /\ get_state(pool, i - 1) # "Free"
    /\ \A h \in holes : get_state(pool, h.b - pool.base_frame_no) = "HoS"

(***************************************************************************)
(* Properties of the VM pool                                               *)
(***************************************************************************)
AddressesOf(r) == r.base_address..(r.base_address + r.size - 1)

\* the nonempty entries of the two arrays, each tagged with its place
NonemptyRegions(v) ==
    {[arr |-> "alloc", i |-> i, r |-> v.alloc[i]] :
        i \in {k \in 0..(MaxRegions - 1) : v.alloc[k].size > 0}}
    \cup {[arr |-> "free", i |-> i, r |-> v.free[i]] :
        i \in {k \in 0..(MaxRegions - 1) : v.free[k].size > 0}}

\* C10: the nonempty regions of alloc[] and free[] do not overlap one another
\* and together cover exactly the pool's window.
C10_RegionsPartitionWindow ==
    /\ \A a, b \in NonemptyRegions(vm) :
          a # b => AddressesOf(a.r) \cap AddressesOf(b.r) = {}
    /\ UNION {AddressesOf(a.r) : a \in NonemptyRegions(vm)}
          = vm.base_address..(vm.base_address + vm.size - 1)


\* the pool as its constructor leaves it, and that pool after the one call
\* allocate(S - 2 * PAGE_SIZE)
FreshOf(v) == VMPool(v.base_address, v.size)
FilledOf(v) == allocate(FreshOf(v), v.size - 2 * PageSize)

\* C11 as stated: on a freshly constructed pool of any size S > 2*PAGE_SIZE
\* the call allocate(S - 2*PAGE_SIZE) succeeds, and every allocate call that
\* follows it with no release in between fails with NO_FREE_REGION.
C11_FillThenNoFreeRegion ==
    [][ /\ (vm = FreshOf(vm) /\ vev'.op = "allocate"
                /\ vev'.arg = vm.size - 2 * PageSize)
            => (vev'.error = "none" /\ vev'.ret # 0)
        /\ (FilledOf(vm).error = "none" /\ vm = FilledOf(vm).v
                /\ vev'.op = "allocate")
            => vev'.error = "NO_FREE_REGION" ]_vars

\* C11 amended: when S is a multiple of PAGE_SIZE the call
\* allocate(S - 2*PAGE_SIZE) on the fresh pool succeeds and returns the
\* first address after the two management pages; every allocate call that
\* follows with no release in between fails and leaves the pool as it is,
\* with INVALID_SIZE for a size of 0 or above S - 2*PAGE_SIZE and with
\* NO_FREE_REGION for every other size.
C11_AlignedFillThenFails ==
    [][ vm.size % PageSize = 0 =>
        /\ (vm = FreshOf(vm) /\ vev'.op = "allocate"
                /\ vev'.arg = vm.size - 2 * PageSize)
            => /\ vev'.error = "none"
               /\ vev'.ret = vm.base_address + 2 * PageSize
               /\ vm' = FilledOf(vm).v
        /\ (vm = FilledOf(vm).v /\ vev'.op = "allocate")
            => /\ vm' = vm
               /\ vev'.ret = 0
               /\ vev'.error =
                    IF vev'.arg = 0 \/ vev'.arg > vm.size - 2 * PageSize
                    THEN "INVALID_SIZE" ELSE "NO_FREE_REGION" ]_vars

\* a pool of whole pages, filled by one call, has turned down a further
\* call for want of a free region
C11_Witness ==
    /\ vm.size % PageSize = 0
    /\ vm = FilledOf(vm).v
    /\ vev.op = "allocate"
    /\ vev.error = "NO_FREE_REGION"

\* k rounded up to a multiple of PAGE_SIZE
RoundUp(k) ==
    CHOOSE m \in k..(k + PageSize - 1) : m % PageSize = 0

\* the address lies in an allocated region other than {a, n}, or in the two
\* management pages
ClaimedElsewhere(v, a, n, address) ==
    \/ \E i \in RegionSlots :
          /\ v.alloc[i].size > 0
          /\ v.alloc[i] # [base_address |-> a, size |-> n]
          /\ address \in AddressesOf(v.alloc[i])
    \/ address \in v.base_address..(v.base_address + 2 * PageSize - 1)

\* C12: after every successful a = allocate(k), is_legitimate(a) and
\* is_legitimate(a + round_up(k) - 1) are true, and
\* is_legitimate(a + round_up(k)) is false unless that address lies in
\* another allocated region or in the two management pages.
C12_AllocatedRangeLegitimate ==
    (vev.op = "allocate" /\ vev.error = "none") =>
        LET a == vev.ret
            n == RoundUp(vev.arg)
        IN  /\ is_legitimate(vm, a)
            /\ is_legitimate(vm, a + n - 1)
            /\ is_legitimate(vm, a + n) => ClaimedElsewhere(vm, a, n, a + n)

\* an allocation of a size that is no multiple of the page size has
\* succeeded, and the address after its last page is not legitimate
C12_Witness ==
    /\ vev.op = "allocate"
    /\ vev.error = "none"
    /\ vev.arg % PageSize # 0
    /\ is_legitimate(vm, vev.ret + RoundUp(vev.arg) - 1)
    /\ ~is_legitimate(vm, vev.ret + RoundUp(vev.arg))

\* the pool after the calls allocate(1), allocate(2 * PAGE_SIZE) and
\* release(base + 2 * PAGE_SIZE) on the fresh pool, in that order
AfterFirst(v) == allocate(FreshOf(v), 1)
AfterSecond(v) == allocate(AfterFirst(v).v, 2 * PageSize)
AfterRelease(v) == release(AfterSecond(v).v, v.base_address + 2 * PageSize)

\* the first two calls of the scenario, on a pool with room for them
C13FirstTwo ==
    /\ (vm = FreshOf(vm) /\ vev'.op = "allocate" /\ vev'.arg = 1)
        => vev'.ret = vm.base_address + 2 * PageSize
    /\ (vm = AfterFirst(vm).v /\ vev'.op = "allocate"
            /\ vev'.arg = 2 * PageSize)
        => vev'.ret = vm.base_address + 3 * PageSize

\* the state in which the scenario's last call, allocate(PAGE_SIZE), acts
C13LastCall ==
    /\ vm = AfterRelease(vm).v
    /\ vev'.op = "allocate"
    /\ vev'.arg = PageSize

\* C13 as stated: on a freshly constructed pool at base B (with room for the
\* calls) allocate(1) returns B + 2*PAGE_SIZE, allocate(2*PAGE_SIZE) returns
\* B + 3*PAGE_SIZE, and after release(B + 2*PAGE_SIZE) the call
\* allocate(PAGE_SIZE) returns B + 2*PAGE_SIZE again.
C13_ReleasedRegionReused ==
    [][ vm.size >= 5 * PageSize =>
        /\ C13FirstTwo
        /\ C13LastCall => vev'.ret = vm.base_address + 2 * PageSize ]_vars

\* C13 amended: on a freshly constructed pool at base B of size
\* S >= 5*PAGE_SIZE, allocate(1) returns B + 2*PAGE_SIZE and
\* allocate(2*PAGE_SIZE) returns B + 3*PAGE_SIZE; after
\* release(B + 2*PAGE_SIZE) the call allocate(PAGE_SIZE) returns
\* B + 2*PAGE_SIZE again when S < 6*PAGE_SIZE, and B + 5*PAGE_SIZE, the
\* start of the remainder kept in free[0], when S >= 6*PAGE_SIZE.
C13_FirstFitBySlot ==
    [][ vm.size >= 5 * PageSize =>
        /\ C13FirstTwo
        /\ C13LastCall =>
             vev'.ret = IF vm.size < 6 * PageSize
                        THEN vm.base_address + 2 * PageSize
                        ELSE vm.base_address + 5 * PageSize ]_vars

\* the scenario has been run to its end on a pool of six pages or more, and
\* its last call has returned the start of the remainder
C13_Witness ==
    /\ vm.size >= 6 * PageSize
    /\ vm = allocate(AfterRelease(vm).v, PageSize).v
    /\ vev.op = "allocate"
    /\ vev.arg = PageSize
    /\ vev.ret = vm.base_address + 5 * PageSize

\* the threads that are members of the ready queue: those reached from
\* queue.head through the next links
QueueMembers ==
    RangeOf(Linked(next, queue.head, Cardinality(AllThreads) + 1))

\* C17: the termination thread is never a member of the ready queue, under
\* the FIFO scheduler and under round robin with timer preemption; it only
\* runs as the target of the dispatch_to call inside terminate.
C17_TerminationThreadNeverQueued ==
    /\ termination_thread \notin QueueMembers
    /\ ev.got = termination_thread => ev.op = "terminate_self"

\* C18: the thread that is running is not a member of the ready queue (not
\* reachable from queue.head through the next links) unless it has been
\* passed to resume or add since it was dispatched.
C18_RunningThreadNotQueued ==
    (halted = "no" /\ current \in Threads /\ current \notin RangeOf(fifo))
        => current \notin QueueMembers

\* the frames of the process frame pool
ProcessFrames ==
    process_mem_pool.base_frame_no
        ..(process_mem_pool.base_frame_no + process_mem_pool.nframes - 1)

\* a step of handle_fault for a fault on a page that is not present, at an
\* address that a registered VM pool reports legitimate
LegitimateFaultStep ==
    /\ gev'.op = "fault"
    /\ gev'.err % 2 = 0
    /\ claimed(PG, vm, gev'.a)

\* C14: when handle_fault is invoked with a not-present error code for an
\* address that a registered VM pool reports legitimate, then on return the
\* PDE and the PTE of the address are present and the PTE holds a frame of
\* the process pool that was Free before the fault and is allocated after
\* it, so that a second access to the page raises no fault, whatever the
\* state of the process pool.
C14_FaultBacksPage ==
    [][ LegitimateFaultStep =>
          /\ ~stuck'
          /\ gev'.error = "none"
          /\ present(mem'[cr3'][PDEIndex(gev'.a)])
          /\ Translate(PG', gev'.a) \in ProcessFrames
          /\ Translate(PG', gev'.a) \in FreeFramesOf(process_mem_pool)
          /\ Translate(PG', gev'.a) \notin FreeFramesOf(process_mem_pool') ]_vars

EntryOf(s, id, a) ==
    LET pde == s.mem[s.page_directory[id]][PDEIndex(a)] IN
    IF present(pde) THEN s.mem[pde.frame][PTEIndex(a)] ELSE NotPresentEntry

\* C16: after free_page(v) on a present page the PTE of v is 0x2 and the
\* frame it held is Free in the process pool; free_page on a page that is
\* not present changes nothing; the next access to a freed v faults again
\* and handle_fault backs it with a newly allocated frame.
C16_FreePageThenRefault ==
    [][ /\ gev'.op = "free_page" =>
             LET old == EntryOf(PG, gev'.id, gev'.a) IN
             IF present(old)
             THEN /\ ~stuck'
                  /\ EntryOf(PG', gev'.id, gev'.a) = NotPresentEntry
                  /\ old.frame \in FreeFramesOf(process_mem_pool')
                  /\ Translate(PG', gev'.a) = NoFrame
             ELSE UNCHANGED <<mem, kernel_mem_pool, process_mem_pool, cr3,
                              current_page_table, stuck>>
        /\ (gev.op = "free_page" /\ gev'.op = "fault" /\ gev'.a = gev.a
                /\ gev'.err % 2 = 0 /\ claimed(PG, vm, gev.a)) =>
             /\ Translate(PG', gev.a) \in FreeFramesOf(process_mem_pool)
             /\ Translate(PG', gev.a) \notin FreeFramesOf(process_mem_pool') ]_vars

\* C20: the first 4 MiB (the pages of the first page table) are
\* identity-mapped in every page table at all times after the kernel page
\* table is constructed, also after other page tables are constructed and
\* destroyed: for every address A below 4 MiB the PTE of A is A | 3.
C20_LowMemoryIdentityMapped ==
    \A id \in PageTables :
        page_directory[id] # NoDir =>
            \A f \in EntryIndexes :
                EntryOf(PG, id, f * PageSize) = PresentEntry(f)

\* C19: whenever a thread's own function is executing, on its first dispatch
\* and every time it is switched back in, the global VM pool is that
\* thread's VM pool and PageTable::current_page_table is its page table
C19_ThreadRunsInOwnMemory ==
    (halted = "no" /\ current \in AllThreads) =>
        /\ cur_pt = thread_pt(current)
        /\ MEMORY_POOL = thread_pool(current)

\* C22: terminate(t) for a thread other than the running one re-enables
\* interrupts on every path that returns to the caller: t null, t not in the
\* queue, the queue empty or of one thread, t unlinked from a longer queue
C22_TerminateReenablesInterrupts ==
    (ev.op = "terminate" /\ halted = "no") => intr

\* C23: every explicit call of RRScheduler::yield resets the timer's tick
\* counter to 0, whether or not a ready thread is found
C23_YieldResetsTicks ==
    (rr /\ ev.op = "yield" /\ halted = "no") => ticks = 0

(***************************************************************************)
(* Properties of the list of frame pools                                   *)
(***************************************************************************)
\* ceil(n / INFO_FRAME_CAPACITY)
InfoFramesFor(n) == (n + InfoFrameCapacity - 1) \div InfoFrameCapacity

\* C24: a pool constructed with info_frame_no = 0 has its first
\* needed_info_frames(n) frames allocated, frame 0 HoS and the others Used,
\* every other frame Free and nFreeFrames = n - needed_info_frames(n); with
\* another info_frame_no all n frames are Free and nFreeFrames = n; either
\* way the pool is on the list of pools, in front of the pools made before
C24_ConstructedPool ==
    [][ lev'.op = "new" =>
          LET p == Head(pools')
              n == p.nframes
              k == InfoFramesFor(n)
          IN  /\ Tail(pools') = pools
              /\ p.base_frame_no = lev'.f /\ p.info_frame_no = lev'.n
              /\ n = ListFrames
              /\ IF p.info_frame_no = 0
                 THEN /\ p.bitmap[0] = "HoS"
                      /\ \A i \in 1..(k - 1) : p.bitmap[i] = "Used"
                      /\ \A i \in k..(n - 1) : p.bitmap[i] = "Free"
                      /\ p.nFreeFrames = n - k
                 ELSE /\ \A i \in 0..(n - 1) : p.bitmap[i] = "Free"
                      /\ p.nFreeFrames = n ]_vars

\* a second pool has just been constructed with its bitmap in its own frames
C24_Witness ==
    lev.op = "new" /\ lev.n = 0 /\ Len(pools) = NPools

\* the pools whose range of frames holds frame f
OwnersOf(ps, f) ==
    {i \in DOMAIN ps : ps[i].base_frame_no <= f
                         /\ f < ps[i].base_frame_no + ps[i].nframes}

\* C26: release_frames(f) changes no pool's bitmap and no pool's nFreeFrames
\* when f is a frame of no pool on the list, or when the state of f in the
\* pool whose range holds it is not HoS
C26_RejectedReleaseChangesNothing ==
    [][ ( /\ lev'.op = "release"
          /\ \A i \in OwnersOf(pools, lev'.f) :
                pools[i].bitmap[lev'.f - pools[i].base_frame_no] # "HoS" )
        => pools' = pools ]_vars

\* release_frames has just been called on a Used frame of the second pool of
\* the list while the first pool holds allocations
C26_Witness ==
    /\ lev.op = "release" /\ Len(pools) = NPools
    /\ \E i \in OwnersOf(pools, lev.f) :
          /\ i = NPools
          /\ pools[i].bitmap[lev.f - pools[i].base_frame_no] = "Used"
    /\ \E j \in 1..(ListFrames - 1) : pools[1].bitmap[j] = "HoS"

(***************************************************************************)
(* Properties of get_frames                                                *)
(***************************************************************************)
\* the pool indexes s at which n frames in a row are Free
FreeRuns(p, n) ==
    {s \in 0..(p.nframes - n) :
        \A i \in s..(s + n - 1) : p.bitmap[i] = "Free"}

\* the state of frame i after frames s .. s + n - 1 of pool p were allocated
AllocatedAt(p, s, n, i) ==
    IF i = s THEN "HoS"
    ELSE IF i > s /\ i < s + n THEN "Used"
    ELSE p.bitmap[i]

\* the free count never stands in the way of a run: whenever n frames in a
\* row are Free, get_frames(n) succeeds
RunAlwaysFound ==
    [][ (pev'.op = "get" /\ FreeRuns(pool, pev'.n) # {}) => pev'.ok ]_vars

\* C25: get_frames(n), n >= 1, is first-fit from the low end: it returns
\* base_frame_no + s for the lowest pool index s with frames s .. s + n - 1
\* all Free, marks exactly those frames allocated and takes n off
\* nFreeFrames; it returns 0 and changes nothing when n > nFreeFrames or
\* there is no such run
C25_GetFramesFirstFit ==
    [][ pev'.op = "get" =>
          LET n == pev'.n
              R == FreeRuns(pool, n)
          IN  IF n <= pool.nFreeFrames /\ R # {}
              THEN LET s == CHOOSE x \in R : \A y \in R : x <= y IN
                   /\ pev'.ok
                   /\ pev'.f = pool.base_frame_no + s
                   /\ \A i \in 0..(pool.nframes - 1) :
                         pool'.bitmap[i] = AllocatedAt(pool, s, n, i)
                   /\ pool'.nFreeFrames = pool.nFreeFrames - n
              ELSE /\ ~pev'.ok
                   /\ pev'.f = 0
                   /\ pool' = pool ]_vars

\* get_frames has just returned a run of two frames that starts behind a
\* single Free frame and an allocated one
C25_Witness ==
    /\ pev.op = "get" /\ pev.ok /\ pev.n = 2
    /\ \E s \in 2..(pool.nframes - 2) :
          /\ pev.f = pool.base_frame_no + s
          /\ \E i \in 0..(s - 2) : pool.bitmap[i] = "Free" /\ pool.bitmap[i + 1] # "Free"

\* C28: after a page table other than the kernel's is constructed, on
\* whatever frame the kernel pool hands out, its directory has the entries
\* below the recursive one equal to the kernel directory's, the recursive
\* entry equal to the directory's own address | 3, and the entries from
\* KERNEL_PDE_LIMIT on not present
C28_ConstructedDirectory ==
    (gev.op = "construct" /\ ~stuck) =>
        LET D  == page_directory[gev.id]
            KD == page_directory[kernel_page_table]
        IN  /\ \A i \in 0..(RecursiveSlot - 1) : mem[D][i] = mem[KD][i]
            /\ mem[D][RecursiveSlot] = PresentEntry(D)
            /\ \A i \in KERNEL_PDE_LIMIT..(ENTRIES_PER_PAGE - 1) : ~present(mem[D][i])

\* the frame address a reaches through the tables of page table object id;
\* NoFrame when it is not mapped there
FrameIn(s, id, a) ==
    LET e == EntryOf(s, id, a) IN
    IF present(e) THEN e.frame ELSE NoFrame

\* the page tables that are constructed
Constructed(s) == {id \in PageTables : s.page_directory[id] # NoDir}

\* a step of handle_fault that has mapped the page of the faulting address
MappingStep ==
    /\ LegitimateFaultStep
    /\ ~stuck'
    /\ gev'.error = "none"

\* the addresses at which a page table is probed for a frame
ProbeAddrs == FaultAddrs

\* C29: a page that handle_fault maps in the kernel range is mapped to the
\* same frame in every page table; a page that it maps in the user range is
\* mapped in the page table that was current at the fault and in no other:
\* no other page table reaches the frame of that page at any address
C29_KernelSharedUserPrivate ==
    [][ MappingStep =>
          LET a == gev'.a
              cur == current_page_table
              F == FrameIn(PG', cur, a)
          IN  IF PDEIndex(a) < RecursiveSlot
              THEN \A id \in Constructed(PG') :
                      /\ FrameIn(PG', id, a) # NoFrame
                      /\ FrameIn(PG', id, a) = F
              ELSE /\ F # NoFrame
                   /\ \A id \in Constructed(PG') \ {cur} :
                         \A b \in ProbeAddrs : FrameIn(PG', id, b) # F ]_vars

\* the first time interrupts are enabled: main's enable_interrupts
FirstEnableStep == ~intr /\ intr' /\ started = {} /\ ev'.op = "sti"

\* the initial threads that main constructs
InitialThreads == 1..RRThreads

\* C30 as stated: during boot interrupts are enabled for the first time only
\* after the scheduler and all initial threads have been constructed, and
\* the dispatch to the first thread happens after interrupts are enabled
C30_BootOrder ==
    [][ /\ FirstEnableStep =>
             (termination_thread \in alive /\ InitialThreads \subseteq alive)
        /\ ev'.op = "first" => intr ]_vars

\* C30 amended: interrupts are enabled for the first time only after the
\* scheduler has been constructed; they stay disabled until then; the initial
\* threads are constructed after that, with interrupts enabled; and the
\* dispatch to the first thread happens after interrupts are enabled and all
\* initial threads are constructed
C30_InterruptsAfterScheduler ==
    [][ /\ mainpc = "scheduler" => ~intr
        /\ FirstEnableStep =>
             (termination_thread \in alive /\ alive \cap Threads = {})
        /\ ev'.op = "thread" => intr
        /\ ev'.op = "first" => (intr /\ InitialThreads \subseteq alive) ]_vars

\* main has just enabled interrupts: the scheduler exists, no thread does
C30_Witness ==
    /\ ev.op = "sti" /\ intr
    /\ alive = {termination_thread}
    /\ mainpc = "threads"

\* a step of the timer interrupt handler
HandlerStep == ev'.op \in {"tick", "preempt"} /\ callpc' = callpc /\ ev' # ev

\* a step of a scheduler call that changes the head, the tail or a next link
\* of the ready queue, or dispatches to the termination thread
MutationStep ==
    /\ ev'.op \in {"add", "resume", "yield", "terminate", "terminate_self"}
    /\ callpc # NoCall /\ callpc' = NoCall
    /\ queue' # queue \/ next' # next \/ ev'.op = "terminate_self"

\* C21: every change of the ready queue's head, tail or next links (enqueue
\* in resume/add, dequeue in yield, unlink in terminate) and the dispatch to
\* the termination thread happens while interrupts are disabled, and the
\* timer interrupt handler never runs between the entry of a scheduler call
\* and the end of its queue mutation
C21_MutationsMasked ==
    [][ /\ MutationStep => ~intr
        /\ HandlerStep => callpc = NoCall ]_vars

\* terminate has been entered for a queued thread with another thread queued
\* behind or before it: interrupts are off and the unlink is still to come
C21_Witness ==
    /\ callpc.op = "terminate" /\ callpc.t \in RangeOf(fifo)
    /\ Len(fifo) >= 2
    /\ rr /\ ~intr /\ halted = "no"

\* a call of allocate or release that has reported an error
FailingCallStep ==
    /\ vev'.op \in {"allocate", "release"}
    /\ vev'.error # "none"
    /\ vev' # vev \/ vm' # vm \/ vmapped' # vmapped

\* C27: a failing VM pool call changes nothing: allocate returning 0
\* (INVALID_SIZE, NO_FREE_REGION, NO_ALLOC_REGION) and release reporting
\* OOB_ADDR, INVALID_ADDR or a full free[] array leave alloc[], free[] and
\* the page-table entries as they were
C27_FailingCallChangesNothing ==
    [][ FailingCallStep =>
          /\ vm'.alloc = vm.alloc /\ vm'.free = vm.free
          /\ vmapped' = vmapped
          /\ (vev'.op = "allocate" => vev'.ret = 0) ]_vars

\* the same for calls made while both array pages are mapped, as they are
\* until release is called with the pool's base address
FailingCallWhileArraysMapped ==
    [][ (FailingCallStep /\ vmapped = {alloc_page(vm), free_page_of(vm)}) =>
          /\ vm'.alloc = vm.alloc /\ vm'.free = vm.free
          /\ vmapped' = vmapped
          /\ (vev'.op = "allocate" => vev'.ret = 0) ]_vars

\* a step of terminate(t) for a thread t that is not null and not running
TerminateOtherStep == ev'.op = "terminate" /\ ev'.t # NULL /\ ev' # ev

\* C40: terminate(t) for a non-null thread t that is neither the running
\* thread nor in the ready queue (not enqueued since it was last dequeued)
\* destroys nothing and leaves head, tail and every next link unchanged
C40_TerminateUnqueuedChangesNothing ==
    [][ (TerminateOtherStep /\ ev'.t \notin RangeOf(fifo)) =>
          (alive' = alive /\ queue' = queue /\ next' = next) ]_vars

\* the same for a thread that no chain of next links from queue.head reaches
TerminateUnlinkedChangesNothing ==
    [][ (TerminateOtherStep /\ ev'.t \notin QueueMembers) =>
          (alive' = alive /\ queue' = queue /\ next' = next) ]_vars

\* C32: in every reachable state the ready queue is a well-formed list:
\* following next links from queue.head reaches queue.tail without visiting
\* a thread twice, the tail's next link is null, head is null exactly when
\* tail is null, and the threads reached are exactly those enqueued and not
\* yet dequeued or terminated, each once, in their order
C32_QueueWellFormed ==
    halted = "no" =>
        /\ Linked(next, queue.head, Cardinality(AllThreads) + 1) = fifo
        /\ queue.tail = LastOrNull(fifo)
        /\ (queue.head = NULL) <=> (queue.tail = NULL)
        /\ queue.tail # NULL => next[queue.tail] = NULL

\* a step in which the termination thread executes `delete thread`
DeleteStep == ev'.op = "delete" /\ current = termination_thread /\ termpc = "delete"

\* C31: every thread passed to terminate as the running thread is destroyed
\* exactly once: whenever the termination thread deletes its cargo, the
\* cargo is a thread that has not been deleted before
C31_CargoDeletedOnce ==
    [][ DeleteStep => cargo \in alive ]_vars

\* the frames of the ranges passed to mark_inaccessible and of the ranges
\* handed out by get_frames since the last release, except the range at f
FramesOfOthers(f) ==
    UNION ({RangeFrames(h.b, h.n) : h \in holes}
             \cup {RangeFrames(got[i].r, got[i].n) :
                     i \in {j \in DOMAIN got : got[j].r # f}})

\* C33: release_frames(f) for the head f of an allocation never changes the
\* state of a frame that belongs to another get_frames allocation or to a
\* range set by mark_inaccessible
C33_ReleaseLeavesOtherRanges ==
    [][ (pev'.op = "release" /\ pev'.ok) =>
          \A x \in FramesOfOthers(pev'.f) :
             get_state(pool', x - pool.base_frame_no)
                = get_state(pool, x - pool.base_frame_no) ]_vars

\* C36: after any sequence of allocate and release calls alloc[0] is still
\* {base, 2 * PAGE_SIZE}: the region of the two management pages is never
\* released and never handed out, and its pages are never passed to
\* free_page while the pool is alive
C36_ManagementRegionKept ==
    /\ vm.alloc[0] = Region(vm.base_address, 2 * PageSize)
    /\ {alloc_page(vm), free_page_of(vm)} \subseteq vmapped
    /\ (vev.op = "allocate" /\ vev.error = "none") =>
          vev.ret >= vm.base_address + 2 * PageSize

\* C37: after every PageTable operation has returned (load, free_page, the
\* destructor, free_page called on a page table that is not the current
\* one), the directory in cr3 is the directory of current_page_table
C37_Cr3IsCurrentDirectory ==
    ~stuck => cr3 = page_directory[current_page_table]

\* the pages of the two VM pool windows, the pages handle_fault backs
BackedPages ==
    {w + k * PageSize : w \in {KernelWindow, UserWindow}, k \in 0..(VMPages - 1)}

\* the page-table entries of those pages in the constructed page tables, as
\* places in memory <<frame of the page table, index>>
BackedSlots ==
    {<<mem[page_directory[x[1]]][PDEIndex(x[2])].frame, PTEIndex(x[2])>> :
        x \in {y \in Constructed(PG) \X BackedPages :
                 present(mem[page_directory[y[1]]][PDEIndex(y[2])])}}

PresentBackedSlots == {sl \in BackedSlots : present(mem[sl[1]][sl[2]])}

AllocatedProcessFrames == ProcessFrames \ FreeFramesOf(process_mem_pool)

\* the place in memory of the PTE of the address of the last fault
FaultSlot == <<mem[cr3][PDEIndex(gev.a)].frame, PTEIndex(gev.a)>>

\* C34: no two present PTEs of pages backed by handle_fault hold the same
\* physical frame, and every frame held by such a PTE, or by the PDE of a
\* page table that handle_fault installed, is a frame of the process pool
\* that is marked allocated; this also holds when the process pool has no
\* free frame left
C34_BackedFramesDistinctAllocated ==
    [][ MappingStep =>
          /\ Translate(PG', gev'.a) \in AllocatedProcessFrames'
          /\ \A sl \in PresentBackedSlots' \ {FaultSlot'} :
                mem'[sl[1]][sl[2]].frame # Translate(PG', gev'.a)
          /\ ~present(mem[cr3][PDEIndex(gev'.a)]) =>
                mem'[cr3'][PDEIndex(gev'.a)].frame \in AllocatedProcessFrames' ]_vars

\* the same with a free frame left in the process pool for every frame the
\* fault needs
C34_WhileFramesLeft ==
    [][ (MappingStep /\ Cardinality(FreeFramesOf(process_mem_pool)) >= 2) =>
          /\ Translate(PG', gev'.a) \in AllocatedProcessFrames'
          /\ \A sl \in PresentBackedSlots' \ {FaultSlot'} :
                mem'[sl[1]][sl[2]].frame # Translate(PG', gev'.a)
          /\ ~present(mem[cr3][PDEIndex(gev'.a)]) =>
                mem'[cr3'][PDEIndex(gev'.a)].frame \in AllocatedProcessFrames' ]_vars
\* a step of the thread's deletion that returns
DeleteThreadStep == gev'.op = "delete_thread" /\ thr.live /\ ~thr'.live /\ ~stuck'

\* C35: constructing a thread with its own address space and later
\* destroying it through terminate returns the kernel frame pool and the
\* process frame pool to the nFreeFrames they had before the construction
C35_ThreadFramesReturned ==
    [][ DeleteThreadStep =>
          /\ kernel_mem_pool'.nFreeFrames = thr.kfree
          /\ process_mem_pool'.nFreeFrames = thr.pfree ]_vars

\* what the deletion does release: the frame of the stack page
C35_StackFrameReleased ==
    [][ (DeleteThreadStep /\ FrameIn(PG, thr.id, StackAddr) \in AllocatedProcessFrames) =>
          /\ FrameIn(PG', thr.id, StackAddr) = NoFrame
          /\ FrameIn(PG, thr.id, StackAddr) \in FreeFramesOf(process_mem_pool') ]_vars
\* a run of the timer handler while no thread was dispatched yet
EarlyTickStep == HandlerStep /\ ~running

\* C38: under the round-robin scheduler with quantum hz >= 1, timer ticks
\* that arrive before the first dispatch_to (Scheduler::running still false)
\* are not counted and cause no enqueue and no yield, however many arrive
C38_EarlyTicksIgnored ==
    [][ EarlyTickStep =>
          /\ ev'.op = "tick"
          /\ ticks' = 0
          /\ queue' = queue /\ next' = next
          /\ current' = current
          /\ ~running' ]_vars

\* a tick was delivered with the queue filled and no thread dispatched yet
C38_Witness ==
    /\ ev.op = "tick"
    /\ ~running /\ intr /\ hz >= 1
    /\ ticks = 0
    /\ queue.head # NULL
C39_QueuedThreadRunsOrHalt ==
    \A t \in Threads : (t \in RangeOf(fifo)) ~> (current = t \/ halted # "no")
====
